---- MODULE Spec2Model ----
(***************************************************************************)
(* Model of the run-once video pipeline: the job.json record store         *)
(* (src/src/jobs/job.ts), the candidate selector and the stage runner      *)
(* (src/src/pipeline.ts), the preflight policy (tools/ytdlp), the delivery *)
(* copier (deliver/deliver) and the run coordinator (run_once).            *)
(***************************************************************************)
EXTENDS Integers, Sequences, FiniteSets, TLC

VARIABLES
    config,        \* AppConfig: retries_max, max_videos_per_run, max_duration_seconds, channels
    jobs,          \* jobs directory: video id -> persisted job.json (domain = ids with a record)
    deliveries,    \* deliveries/: <<run id, video id>> of each item directory -> file name -> size
    runId,         \* number of runOnce invocations started so far; names the current run
    pc,            \* position of the single process
    allEntries,    \* selector: the merged, sorted listing of this run
    candidates,    \* runOnce: the selector's output for this run
    idx,           \* runOnce: index of the candidate being processed
    job,           \* processSingleVideo: the local variable job
    at,            \* processSingleVideo: the collaborator call it is at
    created,       \* processSingleVideo: this call created the record
    entryAttempts, \* processSingleVideo: attempts of the record when the call began
    result,        \* processSingleVideo: the ProcessResult it returned
    deliverOk,     \* video id -> number of deliverJob calls that completed successfully
    feeds,         \* channel id -> the entries its feed serves (the outside world)
    calls,         \* runOnce: the processSingleVideo calls of this run, in order
    thumbnailFailed, \* processSingleVideo: the inner catch of the thumbnail step ran
    thumbnailFile, \* dist/thumbnail.jpg of the item as deliverJob of this call found
                   \* it: {} for no file and before it has looked, {its size} for a file
    args,          \* a function applied on its own: the arguments of the call
    ret,           \* a function applied on its own: what the call returned
    child,         \* runCommand: the spawned process, what it wrote and the output buffers
    timeoutId,     \* runCommand: the kill timer
    promise,       \* runCommand: the promise it returned
    other          \* a second invocation of runOnce on the same jobs directory

vars == <<config, jobs, deliveries, runId, pc, allEntries, candidates, idx,
          job, at, created, entryAttempts, result, deliverOk, feeds, calls,
          thumbnailFailed, thumbnailFile, args, ret, child, timeoutId, promise, other>>

\* The variables of the functions applied on their own; the pipeline leaves
\* them alone, as it does the state of a second invocation.
command == <<child, timeoutId, promise>>

aux == <<args, ret, command, other>>

\* The variables of the pipeline.
pipeline == <<config, jobs, deliveries, runId, pc, allEntries, candidates, idx,
              job, at, created, entryAttempts, result, deliverOk, feeds, calls,
              thumbnailFailed, thumbnailFile>>

-----------------------------------------------------------------------------
(* Bounds of the model *)

\* runOnce invocations explored
MaxRuns == 2
\* length of config.channels explored
MaxChannels == 2
\* largest maxOutputChars given to runCommand
MaxOutputChars == 2
\* longest chunk a data event of the child's stdout or stderr carries
MaxChunkLen == 2
\* most characters the child writes to stdout, and to stderr
MaxWritten == 3
\* longest text given to postProcessText
MaxTextLen == 7
\* largest maxCharsPerLine given to postProcessText
MaxCharsPerLine == 5
\* largest maxLines given to postProcessText
MaxLines == 2
\* ticks to the millisecond: the resolution of a number of seconds
TicksPerMs == 2
\* longest segment text given to segmentsToSrt
MaxSegmentTextLen == 4
\* longest list of segments given to segmentsToSrt and translateSegments
MaxSegments == 2
\* largest number of retries given to withRetries
MaxFetchRetries == 3
\* how far below and above the ceiling the durations given to preflightPasses go
DurationSlack == 2
\* largest retries_max explored (the schema allows up to 10)
MaxRetriesMax == 2
\* largest max_videos_per_run explored
MaxPerRun == 2
\* runOnce invocations explored in the reliable environment
ScenarioRuns == 4
\* publication times explored when the selector is checked on its own
MaxTime == 3

-----------------------------------------------------------------------------
(* Program constants *)

\* ConfigSchema: retries_max min(0)
RetriesMaxFloor == 0
\* ConfigSchema: retries_max max(10)
RetriesMaxCeil == 10
\* postProcessText: the length of the ellipsis "..."
EllipsisLen == 3
\* DEFAULT_TIMEOUT_MS of the yt-dlp tools
DefaultTimeoutMs == 60000
\* ConfigSchema: max_duration_seconds min(30)
MaxDurationFloor == 30
\* ConfigSchema: max_duration_seconds max(3600)
MaxDurationCeil == 3600

NULL == "null"

Videos == {"v1", "v2", "v3"}
Channels == {"UCa", "UCb"}

\* fetchChannelFeed(channelId): the entries parsed from the channel's feed.
Feed(ch) == feeds[ch]

\* The listings the feeds serve while the pipeline is explored: one entry per
\* channel, UCb's the newer one.
DefaultFeeds ==
    [ch \in Channels |->
        IF ch = "UCa"
        THEN << [video_id |-> "v1", published_at |-> 1, channel_id |-> "UCa"] >>
        ELSE << [video_id |-> "v2", published_at |-> 2, channel_id |-> "UCb"] >>]

Stages == <<"preflight", "download", "thumbnail", "asr", "translate", "render", "package", "deliver">>

\* Variant: the thumbnail step comes before the download.
Calls_ThumbnailBeforeDownload ==
    <<"preflight", "normalizeThumbnail", "download", "extractAudio", "runAsr",
      "runTranslation", "burnSubtitles", "normalizeLoudness", "probeVideo",
      "runMetadataGeneration", "deliverJob">>

\* The awaited (or, for deliverJob, called) collaborators in program order.
Calls == <<"preflight", "download", "normalizeThumbnail", "extractAudio", "runAsr",
           "runTranslation", "burnSubtitles", "normalizeLoudness", "probeVideo",
           "runMetadataGeneration", "deliverJob">>

StageOf(c) ==
    CASE c = "preflight" -> "preflight"
      [] c = "download" -> "download"
      [] c = "normalizeThumbnail" -> "thumbnail"
      [] c \in {"extractAudio", "runAsr"} -> "asr"
      [] c = "runTranslation" -> "translate"
      [] c \in {"burnSubtitles", "normalizeLoudness", "probeVideo"} -> "render"
      [] c = "runMetadataGeneration" -> "package"
      [] c = "deliverJob" -> "deliver"

CallIndex(c) == CHOOSE i \in 1..Len(Calls) : Calls[i] = c
NextCall(c) == Calls[CallIndex(c) + 1]

\* The message of the Error a collaborator throws (tool exit code, timeout,
\* network, missing output file).
ToolError == "tool failed"

\* The messages of the stream check of the render stage and of copyAndVerify.
BoolText(b) == IF b THEN "true" ELSE "false"
\* `Output video missing streams: video=${hasVideo}, audio=${hasAudio}`
MissingStreams(hasVideo, hasAudio) ==
    "Output video missing streams: video=" \o BoolText(hasVideo)
        \o ", audio=" \o BoolText(hasAudio)
\* `Source file not found: ${src}` and `Failed to copy file: ${src} -> ${dst}`,
\* the paths given by the name of the file.
SourceNotFound(name) == "Source file not found: " \o name
FailedToCopy(name) == "Failed to copy file: " \o name

Artifacts == <<"final_output", "metadata", "thumbnail">>

\* The files deliverJob copies, in the order it copies them.
FileNames == <<"final_output.mp4", "metadata.json", "thumbnail.jpg">>

\* job.artifacts of a record without artifacts: the object {}.
NoArtifacts == [kind \in {} |-> <<>>]

-----------------------------------------------------------------------------
(* Item record store *)

jobExists(v) == v \in DOMAIN jobs

\* JobSchema: the strings are min(1), attempts is int().min(0), artifacts is a
\* partial object of the three kinds.  A JSON number is modelled as an integer.
JobSchema(j) ==
    /\ j.video_id # ""
    /\ j.status # ""
    /\ j.step # ""
    /\ j.attempts >= 0
    /\ DOMAIN j.artifacts \subseteq {"final_output", "metadata", "thumbnail"}
    /\ \A kind \in DOMAIN j.artifacts : j.artifacts[kind] # <<>>

\* JobSchema.parse(readJson(path)) returns instead of throwing.
Loads(j) == JobSchema(j)

\* What loadJob returns when it returns: the parsed content of the file.
loadJob(v) == jobs[v]

saveJob(v, j) == [x \in (DOMAIN jobs) \cup {v} |-> IF x = v THEN j ELSE jobs[x]]

createJob(v) ==
    [video_id |-> v, status |-> "pending", attempts |-> 0, step |-> "discovered",
     last_error |-> NULL, artifacts |-> NoArtifacts]

updateStep(j, step) == [j EXCEPT !.step = step]

incrementAttempts(j, msg) == [j EXCEPT !.attempts = @ + 1, !.last_error = msg]

markFailed(j) == [j EXCEPT !.status = "failed"]

markSucceeded(j, finalStep) == [j EXCEPT !.status = "succeeded", !.step = finalStep]

NoJob == [video_id |-> "", status |-> "", attempts |-> 0, step |-> "",
          last_error |-> NULL, artifacts |-> NoArtifacts]

NoResult == [status |-> "", reason |-> ""]

\* No function is being applied on its own.
NoArgs == [fn |-> ""]
NoRet == [kind |-> "none"]

\* No second invocation has been started.  processed holds the items whose
\* call got past the entry logic, delivered those whose deliverJob completed.
NoOther == [pc |-> "idle", candidates |-> <<>>, idx |-> 0, job |-> NoJob,
            processed |-> {}, delivered |-> {}]

\* No command is running.
NoChild == [state |-> "none", stdout |-> <<>>, stderr |-> <<>>,
            wroteStdout |-> <<>>, wroteStderr |-> <<>>]
NoPromise == [state |-> "none"]

NoCommand ==
    /\ child = NoChild
    /\ timeoutId = "undefined"
    /\ promise = NoPromise

NoCall ==
    /\ args = NoArgs
    /\ ret = NoRet
    /\ NoCommand

-----------------------------------------------------------------------------
(* Preflight policy *)

DefaultMaxDuration == 300

\* The normalized preflight results the tool can produce: durationSeconds is
\* {} for null and {d} for a number; shorts says the URL contains "/shorts/".
PreflightResults ==
    [isLive : BOOLEAN, durationSeconds : {{}, {200}, {400}}, shorts : BOOLEAN]

\* `duration ${preflight.durationSeconds}s exceeds limit`
ExceedsLimit(durationSeconds) ==
    "duration " \o ToString(durationSeconds) \o "s exceeds limit"

\* Variant: a duration equal to the ceiling is rejected, >= instead of >.
preflightPasses_AtCeilingRejected(preflight, maxDurationSeconds, excludeShorts) ==
    IF preflight.isLive
    THEN [ok |-> FALSE, reason |-> "live stream"]
    ELSE IF preflight.durationSeconds = {}
    THEN [ok |-> FALSE, reason |-> "missing duration"]
    ELSE IF \E d \in preflight.durationSeconds : d >= maxDurationSeconds
    THEN [ok |-> FALSE,
          reason |-> ExceedsLimit(CHOOSE d \in preflight.durationSeconds : TRUE)]
    ELSE IF excludeShorts /\ preflight.shorts
    THEN [ok |-> FALSE, reason |-> "shorts excluded"]
    ELSE [ok |-> TRUE, reason |-> ""]

preflightPasses(preflight, maxDurationSeconds, excludeShorts) ==
    IF preflight.isLive
    THEN [ok |-> FALSE, reason |-> "live stream"]
    ELSE IF preflight.durationSeconds = {}
    THEN [ok |-> FALSE, reason |-> "missing duration"]
    ELSE IF \E d \in preflight.durationSeconds : d > maxDurationSeconds
    THEN [ok |-> FALSE,
          reason |-> ExceedsLimit(CHOOSE d \in preflight.durationSeconds : TRUE)]
    ELSE IF excludeShorts /\ preflight.shorts
    THEN [ok |-> FALSE, reason |-> "shorts excluded"]
    ELSE [ok |-> TRUE, reason |-> ""]

\* The reasons preflightPasses can give for the results in PreflightResults.
PolicyReasons ==
    {"live stream", "missing duration", "shorts excluded"}
        \cup {ExceedsLimit(d) : d \in UNION {p.durationSeconds : p \in PreflightResults}}

\* `preflight: ${checkResult.reason}`
PreflightMsg(reason) == "preflight: " \o reason

PolicyErrors == {PreflightMsg(r) : r \in PolicyReasons}

-----------------------------------------------------------------------------
(* Candidate selector *)

\* Variant: the channel loop has no try/catch, the first failing source ends
\* the merge.
RECURSIVE MergeFeeds_AbortOnFailure(_, _, _)
MergeFeeds_AbortOnFailure(chs, ok, i) ==
    IF i > Len(chs) \/ i \notin ok THEN <<>>
    ELSE Feed(chs[i]) \o MergeFeeds_AbortOnFailure(chs, ok, i + 1)

\* allEntries after the loop over config.channels; ok is the set of channel
\* positions whose resolve and fetch did not throw.
RECURSIVE MergeFeeds(_, _, _)
MergeFeeds(chs, ok, i) ==
    IF i > Len(chs) THEN <<>>
    ELSE (IF i \in ok THEN Feed(chs[i]) ELSE <<>>) \o MergeFeeds(chs, ok, i + 1)

\* Variant: an unstable sort, entries of equal time come out reversed.
RECURSIVE InsertDesc_TiesReversed(_, _)
InsertDesc_TiesReversed(sorted, e) ==
    IF sorted = <<>> THEN <<e>>
    ELSE IF Head(sorted).published_at > e.published_at
         THEN <<Head(sorted)>> \o InsertDesc_TiesReversed(Tail(sorted), e)
         ELSE <<e>> \o sorted

\* Array.prototype.sort with (a, b) => dateB - dateA: stable, newest first.
RECURSIVE InsertDesc(_, _)
InsertDesc(sorted, e) ==
    IF sorted = <<>> THEN <<e>>
    ELSE IF Head(sorted).published_at >= e.published_at
         THEN <<Head(sorted)>> \o InsertDesc(Tail(sorted), e)
         ELSE <<e>> \o sorted

RECURSIVE SortDesc(_)
SortDesc(s) ==
    IF s = <<>> THEN <<>>
    ELSE InsertDesc(SortDesc(SubSeq(s, 1, Len(s) - 1)), s[Len(s)])

\* Variant: only a terminal record counts as seen.
AlreadyHasJob_TerminalOnly(v) == jobExists(v) /\ jobs[v].status # "pending"

\* The test of line 80 that drops an entry from the candidates.
AlreadyHasJob(v) == jobExists(v)

ToCandidate(entry) ==
    [videoId |-> entry.video_id, channelId |-> entry.channel_id,
     publishedAt |-> entry.published_at]

\* Variant: the cap counts the entries looked at, not the candidates kept.
RECURSIVE FilterEntries_CapBeforeFilter(_, _, _)
FilterEntries_CapBeforeFilter(entries, i, acc) ==
    IF i > Len(entries) THEN acc
    ELSE IF i > config.max_videos_per_run THEN acc
    ELSE IF AlreadyHasJob(entries[i].video_id)
         THEN FilterEntries_CapBeforeFilter(entries, i + 1, acc)
    ELSE FilterEntries_CapBeforeFilter(entries, i + 1, Append(acc, ToCandidate(entries[i])))

\* The filter loop: stop at max_videos_per_run candidates, skip ids with a job.
RECURSIVE FilterEntries(_, _, _)
FilterEntries(entries, i, acc) ==
    IF i > Len(entries) THEN acc
    ELSE IF Len(acc) >= config.max_videos_per_run THEN acc
    ELSE IF AlreadyHasJob(entries[i].video_id) THEN FilterEntries(entries, i + 1, acc)
    ELSE FilterEntries(entries, i + 1, Append(acc, ToCandidate(entries[i])))

SortedEntries(ok) == SortDesc(MergeFeeds(config.channels, ok, 1))

fetchAndFilterCandidates(ok) == FilterEntries(SortedEntries(ok), 1, <<>>)

-----------------------------------------------------------------------------
(* Initial state: a fresh workspace and a configuration the schema accepts *)

ChannelLists == UNION {[1..n -> Channels] : n \in 1..MaxChannels}

\* The channel lists up to reordering: k times UCa, then m times UCb.  With
\* DefaultFeeds no two entries share a publication time, so the order of
\* config.channels does not change what a run does.
GroupedChannelLists ==
    {[i \in 1..(k + m) |-> IF i <= k THEN "UCa" ELSE "UCb"] :
        k \in 0..MaxChannels, m \in 0..MaxChannels} \cap ChannelLists

\* The configurations ConfigSchema accepts, with retries_max among ceilings.
Configs(ceilings) ==
    [retries_max : {r \in RetriesMaxFloor..RetriesMaxCeil : r \in ceilings},
     max_videos_per_run : 1..MaxPerRun,
     max_duration_seconds : {DefaultMaxDuration},
     channels : GroupedChannelLists]

\* The pipeline on a fresh workspace, before the first run.
PipelineInit(configs) ==
    /\ config \in configs
    /\ jobs = [v \in {} |-> NoJob]
    /\ deliveries = [d \in {} |-> NoArtifacts]
    /\ runId = 0
    /\ pc = "idle"
    /\ allEntries = <<>>
    /\ candidates = <<>>
    /\ idx = 0
    /\ job = NoJob
    /\ at = ""
    /\ created = FALSE
    /\ entryAttempts = 0
    /\ result = NoResult
    /\ deliverOk = [v \in Videos |-> 0]
    /\ feeds = DefaultFeeds
    /\ calls = <<>>
    /\ thumbnailFailed = FALSE
    /\ thumbnailFile = {}
    /\ other = NoOther

InitWith(configs) ==
    /\ PipelineInit(configs)
    /\ NoCall

Init == InitWith(Configs(0..MaxRetriesMax))

-----------------------------------------------------------------------------
(* Run coordinator *)

\* prepareWorkspace and the selector call of runOnce; ok is the set of channel
\* positions whose listing could be fetched.
SelectCandidates(ok) ==
    /\ pc = "idle"
    /\ runId' = runId + 1
    /\ allEntries' = SortedEntries(ok)
    /\ candidates' = fetchAndFilterCandidates(ok)
    /\ pc' = "selected"
    /\ UNCHANGED <<feeds, config, aux, jobs, deliveries, idx, job, at, created, entryAttempts, result,
                   deliverOk, calls, thumbnailFailed, thumbnailFile>>

\* The timer starts a run.
StartRun(ok) ==
    /\ runId < MaxRuns
    /\ SelectCandidates(ok)

\* Variant: the early return is missing and the run goes on to the loop.
NoCandidates_FallsThrough ==
    /\ pc = "selected"
    /\ Len(candidates) = 0
    /\ pc' = "loop"
    /\ idx' = 1
    /\ allEntries' = <<>>
    /\ UNCHANGED <<feeds, config, aux, jobs, deliveries, runId, candidates, job, at,
                   created, entryAttempts, result, deliverOk, calls, thumbnailFailed, thumbnailFile>>

\* candidates.length === 0: "No new videos to process".
NoCandidates ==
    /\ pc = "selected"
    /\ Len(candidates) = 0
    /\ pc' = "idle"
    /\ allEntries' = <<>>
    /\ UNCHANGED <<feeds, config, aux, jobs, deliveries, runId, candidates, idx, job, at,
                   created, entryAttempts, result, deliverOk, calls, thumbnailFailed, thumbnailFile>>

BeginLoop ==
    /\ pc = "selected"
    /\ Len(candidates) > 0
    /\ idx' = 1
    /\ allEntries' = <<>>
    /\ pc' = "loop"
    /\ UNCHANGED <<feeds, config, aux, jobs, deliveries, runId, candidates, job, at, created,
                   entryAttempts, result, deliverOk, calls, thumbnailFailed, thumbnailFile>>

\* for (const candidate of candidates): call processSingleVideo.
ProcessNext ==
    /\ pc = "loop"
    /\ idx <= Len(candidates)
    /\ pc' = "entry"
    /\ calls' = Append(calls, [videoId |-> candidates[idx].videoId, processed |-> FALSE,
                                status |-> ""])
    /\ UNCHANGED <<feeds, allEntries, config, aux, jobs, deliveries, runId, candidates, idx, job, at,
                   created, entryAttempts, result, deliverOk, thumbnailFailed, thumbnailFile>>

\* Variant: the loop steps over the candidate that follows.
Returned_SkipNext ==
    /\ pc = "returned"
    /\ idx' = idx + 2
    /\ pc' = "loop"
    /\ job' = NoJob
    /\ at' = ""
    /\ created' = FALSE
    /\ entryAttempts' = 0
    /\ result' = NoResult
    /\ thumbnailFailed' = FALSE
    /\ thumbnailFile' = {}
    /\ calls' = [calls EXCEPT ![idx].status = result.status]
    /\ UNCHANGED <<feeds, allEntries, config, aux, jobs, deliveries, runId, candidates, deliverOk>>

\* Variant: a failed result ends the run.
Returned_AbortOnFailure ==
    /\ pc = "returned"
    /\ pc' = IF result.status = "failed" THEN "idle" ELSE "loop"
    /\ idx' = IF result.status = "failed" THEN 0 ELSE idx + 1
    /\ candidates' = IF result.status = "failed" THEN <<>> ELSE candidates
    /\ calls' = IF result.status = "failed" THEN <<>>
                ELSE [calls EXCEPT ![idx].status = result.status]
    /\ job' = NoJob
    /\ at' = ""
    /\ created' = FALSE
    /\ entryAttempts' = 0
    /\ result' = NoResult
    /\ thumbnailFailed' = FALSE
    /\ thumbnailFile' = {}
    /\ UNCHANGED <<feeds, allEntries, config, aux, jobs, deliveries, runId, deliverOk>>

\* The switch on result.status and the step to the next candidate.
Returned ==
    /\ pc = "returned"
    /\ idx' = idx + 1
    /\ pc' = "loop"
    /\ job' = NoJob
    /\ at' = ""
    /\ created' = FALSE
    /\ entryAttempts' = 0
    /\ result' = NoResult
    /\ thumbnailFailed' = FALSE
    /\ thumbnailFile' = {}
    /\ calls' = [calls EXCEPT ![idx].status = result.status]
    /\ UNCHANGED <<feeds, allEntries, config, aux, jobs, deliveries, runId, candidates, deliverOk>>

\* The loop is over: the summary is logged and runOnce resolves.
RunCompleted ==
    /\ pc = "loop"
    /\ idx > Len(candidates)
    /\ pc' = "idle"
    /\ candidates' = <<>>
    /\ idx' = 0
    /\ calls' = <<>>
    /\ UNCHANGED <<feeds, allEntries, config, aux, jobs, deliveries, runId, job, at, created,
                   entryAttempts, result, deliverOk, thumbnailFailed, thumbnailFile>>

\* The process dies (kill, power loss, container stop); only the disk survives.
Crash ==
    /\ pc \notin {"idle"}
    /\ pc' = "idle"
    /\ allEntries' = <<>>
    /\ candidates' = <<>>
    /\ idx' = 0
    /\ job' = NoJob
    /\ at' = ""
    /\ created' = FALSE
    /\ entryAttempts' = 0
    /\ result' = NoResult
    /\ calls' = <<>>
    /\ thumbnailFailed' = FALSE
    /\ thumbnailFile' = {}
    /\ UNCHANGED <<feeds, config, aux, jobs, deliveries, runId, deliverOk>>

-----------------------------------------------------------------------------
(* Stage runner: processSingleVideo *)

Cur == candidates[idx].videoId

\* Variants: an early return of the entry logic is missing.
IsSucceeded_Never(j) == FALSE
IsFailed_Never(j) == FALSE

\* The two early returns of the entry logic.
IsSucceeded(j) == j.status = "succeeded"
IsFailed(j) == j.status = "failed"

\* Variant: off by one, > instead of >=.
MaxRetriesReached_Strict(j) == j.attempts > config.retries_max

\* job.attempts >= config.retries_max in the catch block.
MaxRetriesReached(j) == j.attempts >= config.retries_max

\* path.join(deliveriesDir, videoId, name), deliveriesDir being that of the run.
DstPath(run, v, name) == <<run, v, name>>

\* The DeliveryResult deliverJob returns.
DeliveryResult(run, v) ==
    [videoPath |-> DstPath(run, v, FileNames[1]),
     metadataPath |-> DstPath(run, v, FileNames[2]),
     thumbnailPath |-> DstPath(run, v, FileNames[3])]

\* Variant: the thumbnail path is left out of the artifacts.
buildArtifacts_NoThumbnail(deliveryResult) ==
    [final_output |-> deliveryResult.videoPath,
     metadata |-> deliveryResult.metadataPath]

buildArtifacts(deliveryResult) ==
    [final_output |-> deliveryResult.videoPath,
     metadata |-> deliveryResult.metadataPath,
     thumbnail |-> deliveryResult.thumbnailPath]

\* Variant: the first checkpoint is written before the status is looked at.
EntrySkip_AfterCheckpoint ==
    /\ pc = "entry"
    /\ jobExists(Cur)
    /\ Loads(jobs[Cur])
    /\ LET loaded == loadJob(Cur) IN
        /\ IsSucceeded(loaded) \/ IsFailed(loaded)
        /\ job' = updateStep(loaded, "preflight")
        /\ jobs' = saveJob(Cur, job')
        /\ entryAttempts' = loaded.attempts
        /\ result' = [status |-> "skipped",
                      reason |-> IF IsSucceeded(loaded) THEN "already succeeded"
                                 ELSE "already failed (max retries)"]
    /\ created' = FALSE
    /\ pc' = "returned"
    /\ UNCHANGED <<feeds, allEntries, config, aux, deliveries, runId, candidates, idx, at,
                   deliverOk, calls, thumbnailFailed, thumbnailFile>>

\* The record exists and is terminal: return skipped.
EntrySkip ==
    /\ pc = "entry"
    /\ jobExists(Cur)
    /\ Loads(jobs[Cur])
    /\ LET loaded == loadJob(Cur) IN
        /\ IsSucceeded(loaded) \/ IsFailed(loaded)
        /\ job' = loaded
        /\ entryAttempts' = loaded.attempts
        /\ result' = [status |-> "skipped",
                      reason |-> IF IsSucceeded(loaded) THEN "already succeeded"
                                 ELSE "already failed (max retries)"]
    /\ created' = FALSE
    /\ pc' = "returned"
    /\ UNCHANGED <<feeds, allEntries, config, aux, jobs, deliveries, runId, candidates, idx, at,
                   deliverOk, calls, thumbnailFailed, thumbnailFile>>

\* Variant: a pending record is resumed at the first call of its recorded step.
EntryResume_AtRecordedStep ==
    /\ pc = "entry"
    /\ jobExists(Cur)
    /\ Loads(jobs[Cur])
    /\ LET loaded == loadJob(Cur) IN
        /\ ~IsSucceeded(loaded)
        /\ ~IsFailed(loaded)
        /\ job' = loaded
        /\ entryAttempts' = loaded.attempts
        /\ at' = IF loaded.step = "discovered" THEN "preflight"
                 ELSE Calls[CHOOSE i \in 1..Len(Calls) :
                                /\ StageOf(Calls[i]) = loaded.step
                                /\ \A k \in 1..(i - 1) : StageOf(Calls[k]) # loaded.step]
    /\ created' = FALSE
    /\ pc' = "step"
    /\ calls' = [calls EXCEPT ![idx].processed = TRUE]
    /\ UNCHANGED <<feeds, allEntries, config, aux, jobs, deliveries, runId, candidates, idx, result,
                   deliverOk, thumbnailFailed, thumbnailFile>>

\* The record exists and is not terminal: go on with the loaded record.
EntryResume ==
    /\ pc = "entry"
    /\ jobExists(Cur)
    /\ Loads(jobs[Cur])
    /\ LET loaded == loadJob(Cur) IN
        /\ ~IsSucceeded(loaded)
        /\ ~IsFailed(loaded)
        /\ job' = loaded
        /\ entryAttempts' = loaded.attempts
    /\ created' = FALSE
    /\ at' = "preflight"
    /\ pc' = "step"
    /\ calls' = [calls EXCEPT ![idx].processed = TRUE]
    /\ UNCHANGED <<feeds, allEntries, config, aux, jobs, deliveries, runId, candidates, idx, result,
                   deliverOk, thumbnailFailed, thumbnailFile>>

\* No record: create it and save it.
EntryCreate ==
    /\ pc = "entry"
    /\ ~jobExists(Cur)
    /\ job' = createJob(Cur)
    /\ jobs' = saveJob(Cur, job')
    /\ entryAttempts' = 0
    /\ created' = TRUE
    /\ at' = "preflight"
    /\ pc' = "step"
    /\ calls' = [calls EXCEPT ![idx].processed = TRUE]
    /\ UNCHANGED <<feeds, allEntries, config, aux, deliveries, runId, candidates, idx, result,
                   deliverOk, thumbnailFailed, thumbnailFile>>

\* Step 1 opens: job = updateStep(job, "preflight", nowIso()); saveJob(...);
\* then preflight is called.
BeginPreflight ==
    /\ pc = "step"
    /\ job' = updateStep(job, StageOf(at))
    /\ jobs' = saveJob(Cur, job')
    /\ pc' = "call"
    /\ UNCHANGED <<feeds, allEntries, config, aux, deliveries, runId, candidates, idx, at, created,
                   entryAttempts, result, deliverOk, calls, thumbnailFailed, thumbnailFile>>

\* Variant: the step of a new stage is set in memory but not saved.
Advance_WithoutSave ==
    /\ at' = NextCall(at)
    /\ job' = IF StageOf(NextCall(at)) = StageOf(at) THEN job
              ELSE updateStep(job, StageOf(NextCall(at)))
    /\ jobs' = jobs
    /\ pc' = "call"
    /\ UNCHANGED <<feeds, allEntries, config, aux, deliveries, runId, candidates, idx, created,
                   entryAttempts, result, deliverOk, calls>>

\* The collaborator returned normally and the code runs on to the next call;
\* when that call opens a new stage, updateStep and saveJob come first.
Advance ==
    /\ at' = NextCall(at)
    /\ job' = IF StageOf(NextCall(at)) = StageOf(at) THEN job
              ELSE updateStep(job, StageOf(NextCall(at)))
    /\ jobs' = IF StageOf(NextCall(at)) = StageOf(at) THEN jobs ELSE saveJob(Cur, job')
    /\ pc' = "call"
    /\ UNCHANGED <<feeds, allEntries, config, aux, deliveries, runId, candidates, idx, created,
                   entryAttempts, result, deliverOk, calls>>

\* Variant: the catch block marks the record failed whatever attempts is.
CatchHandler_AlwaysFails(errorMsg) ==
    LET final == markFailed(incrementAttempts(job, errorMsg)) IN
        /\ job' = final
        /\ jobs' = saveJob(Cur, final)
        /\ result' = [status |-> "failed", reason |-> errorMsg]
        /\ pc' = "returned"

\* Variant: the catch block compares attempts before incrementing them.
CatchHandler_CheckBeforeIncrement(errorMsg) ==
    LET incremented == incrementAttempts(job, errorMsg)
        final == IF MaxRetriesReached(job) THEN markFailed(incremented) ELSE incremented
    IN  /\ job' = final
        /\ jobs' = saveJob(Cur, final)
        /\ result' = [status |-> "failed", reason |-> errorMsg]
        /\ pc' = "returned"

\* The catch block of processSingleVideo.
CatchHandler(errorMsg) ==
    LET incremented == incrementAttempts(job, errorMsg)
        final == IF MaxRetriesReached(incremented) THEN markFailed(incremented)
                 ELSE incremented
    IN  /\ job' = final
        /\ jobs' = saveJob(Cur, final)
        /\ result' = [status |-> "failed", reason |-> errorMsg]
        /\ pc' = "returned"

\* Variant: a policy rejection is marked failed without counting the attempt.
PolicyReject_NoIncrement(reason) ==
    LET rejected == markFailed([job EXCEPT !.last_error = PreflightMsg(reason)]) IN
        /\ job' = rejected
        /\ jobs' = saveJob(Cur, rejected)
        /\ result' = [status |-> "failed", reason |-> reason]
        /\ pc' = "returned"

\* Variant: a policy rejection is retried like any other failure.
PolicyReject_Retryable(reason) ==
    LET incremented == incrementAttempts(job, PreflightMsg(reason))
        final == IF MaxRetriesReached(incremented) THEN markFailed(incremented)
                 ELSE incremented
    IN  /\ job' = final
        /\ jobs' = saveJob(Cur, final)
        /\ result' = [status |-> "failed", reason |-> reason]
        /\ pc' = "returned"

\* The !checkResult.ok branch.
PolicyReject(reason) ==
    LET rejected == markFailed(incrementAttempts(job, PreflightMsg(reason))) IN
        /\ job' = rejected
        /\ jobs' = saveJob(Cur, rejected)
        /\ result' = [status |-> "failed", reason |-> reason]
        /\ pc' = "returned"

PlainCalls == {"download", "normalizeThumbnail", "extractAudio", "runAsr", "runTranslation",
               "burnSubtitles", "normalizeLoudness", "runMetadataGeneration"}

ThrowingCalls == {"preflight", "download", "extractAudio", "runAsr", "runTranslation",
                  "burnSubtitles", "normalizeLoudness", "probeVideo", "runMetadataGeneration"}

\* A collaborator without a checked result resolves.
CallOk ==
    /\ pc = "call"
    /\ at \in PlainCalls
    /\ Advance
    /\ UNCHANGED <<thumbnailFailed, thumbnailFile>>

\* A collaborator inside the try block rejects (tool exit code, timeout, I/O).
CallFail ==
    /\ pc = "call"
    /\ at \in ThrowingCalls
    /\ CatchHandler(ToolError)
    /\ UNCHANGED <<feeds, allEntries, config, aux, deliveries, runId, candidates, idx, at, created,
                   entryAttempts, deliverOk, calls, thumbnailFailed, thumbnailFile>>

\* preflight resolves and preflightPasses accepts the result.
PreflightPass(p) ==
    /\ pc = "call"
    /\ at = "preflight"
    /\ preflightPasses(p, config.max_duration_seconds, TRUE).ok
    /\ Advance
    /\ UNCHANGED <<thumbnailFailed, thumbnailFile>>

\* preflight resolves and preflightPasses rejects the result.
PreflightReject(p) ==
    /\ pc = "call"
    /\ at = "preflight"
    /\ LET checkResult == preflightPasses(p, config.max_duration_seconds, TRUE) IN
        /\ ~checkResult.ok
        /\ PolicyReject(checkResult.reason)
    /\ UNCHANGED <<feeds, allEntries, config, aux, deliveries, runId, candidates, idx, at, created,
                   entryAttempts, deliverOk, calls, thumbnailFailed, thumbnailFile>>

\* What a failed normalizeThumbnail leaves of dist/thumbnail.jpg: no file (no
\* thumbnail found in the source directory of a new item, ffmpeg wrote
\* nothing), an empty file ("ffmpeg did not produce thumbnail.jpg"), or a
\* file that is not empty (written before ffmpeg failed or was killed, or
\* left by an earlier attempt).
ThumbnailFiles == {{}, {0}, {1}}

\* Variant: the thumbnail step has no inner try, its rejection reaches the
\* catch block.
ThumbnailFail_Fatal ==
    /\ pc = "call"
    /\ at = "normalizeThumbnail"
    /\ CatchHandler(ToolError)
    /\ thumbnailFailed' = TRUE
    /\ UNCHANGED thumbnailFile
    /\ UNCHANGED <<feeds, allEntries, config, aux, deliveries, runId, candidates, idx, at, created,
                   entryAttempts, deliverOk, calls>>

\* normalizeThumbnail rejects: caught by the inner try, logged, pipeline goes on.
ThumbnailFail ==
    /\ pc = "call"
    /\ at = "normalizeThumbnail"
    /\ Advance
    /\ thumbnailFailed' = TRUE
    /\ UNCHANGED thumbnailFile

\* probeVideo resolves with both streams present.
ProbeOk ==
    /\ pc = "call"
    /\ at = "probeVideo"
    /\ Advance
    /\ UNCHANGED <<thumbnailFailed, thumbnailFile>>

\* Variant: a missing stream is an error class of its own, failed at once.
ProbeMissing_Terminal(hasVideo, hasAudio) ==
    /\ pc = "call"
    /\ at = "probeVideo"
    /\ ~hasVideo \/ ~hasAudio
    /\ CatchHandler_AlwaysFails(MissingStreams(hasVideo, hasAudio))
    /\ UNCHANGED <<feeds, allEntries, config, aux, deliveries, runId, candidates, idx, at, created,
                   entryAttempts, deliverOk, calls, thumbnailFailed, thumbnailFile>>

\* probeVideo resolves without a video or an audio stream: throw new Error.
ProbeMissing(hasVideo, hasAudio) ==
    /\ pc = "call"
    /\ at = "probeVideo"
    /\ ~hasVideo \/ ~hasAudio
    /\ CatchHandler(MissingStreams(hasVideo, hasAudio))
    /\ UNCHANGED <<feeds, allEntries, config, aux, deliveries, runId, candidates, idx, at, created,
                   entryAttempts, deliverOk, calls, thumbnailFailed, thumbnailFile>>

\* ensureDir(targetDir): the item directory of this run exists afterwards.
EnsureDir(tree, d) ==
    IF d \in DOMAIN tree THEN tree
    ELSE [x \in (DOMAIN tree) \cup {d} |-> IF x = d THEN NoArtifacts ELSE tree[x]]

\* fs.copyFileSync(src, dst) of a source of the given size: dst is created or
\* overwritten.
CopyFile(dir, name, size) ==
    [n \in (DOMAIN dir) \cup {name} |-> IF n = name THEN size ELSE dir[n]]

\* The item directory after the first n copies of deliverJob, the last of them
\* of a source of size lastSize and the ones before it of non-empty sources.
RECURSIVE Copied(_, _, _)
Copied(dir, n, lastSize) ==
    IF n = 0 THEN dir
    ELSE CopyFile(Copied(dir, n - 1, 1), FileNames[n], lastSize)

\* deliveries after deliverJob has made its first n copies.
DeliverFiles(n, lastSize) ==
    LET d == <<runId, Cur>>
        tree == EnsureDir(deliveries, d)
    IN  [tree EXCEPT ![d] = Copied(tree[d], n, lastSize)]

\* deliverJob copies and verifies the three artifacts and returns; the source
\* of the third is the file the thumbnail step left.
DeliverOk ==
    /\ pc = "call"
    /\ at = "deliverJob"
    /\ deliveries' = DeliverFiles(Len(FileNames), 1)
    /\ deliverOk' = [deliverOk EXCEPT ![Cur] = @ + 1]
    /\ thumbnailFile' = {1}
    /\ pc' = "mark"
    /\ UNCHANGED <<feeds, allEntries, config, aux, jobs, runId, candidates, idx, job, at, created,
                   entryAttempts, result, calls, thumbnailFailed>>

\* copyAndVerify throws at the k-th artifact: the source is missing (nothing
\* written for it) or the copy came out empty (the file is there, of size 0).
\* The item directory and the copies made before stay.  At the thumbnail,
\* found is the file the thumbnail step left: the source is missing exactly
\* when it left none, and a step that succeeded left a file that is not empty.
DeliverFail(k, written, found) ==
    /\ pc = "call"
    /\ at = "deliverJob"
    /\ deliveries' = IF written THEN DeliverFiles(k, 0) ELSE DeliverFiles(k - 1, 1)
    /\ IF k = Len(FileNames)
       THEN /\ written <=> found # {}
            /\ ~thumbnailFailed => found = {1}
       ELSE found = {}
    /\ thumbnailFile' = found
    /\ CatchHandler(IF written THEN FailedToCopy(FileNames[k])
                    ELSE SourceNotFound(FileNames[k]))
    /\ UNCHANGED <<feeds, allEntries, config, aux, runId, candidates, idx, at, created, entryAttempts,
                   deliverOk, calls, thumbnailFailed>>

\* job.artifacts = buildArtifacts(...); markSucceeded; saveJob; return succeeded.
MarkSucceeded ==
    /\ pc = "mark"
    /\ job' = markSucceeded([job EXCEPT !.artifacts = buildArtifacts(DeliveryResult(runId, Cur))],
                            "deliver")
    /\ jobs' = saveJob(Cur, job')
    /\ result' = [status |-> "succeeded", reason |-> ""]
    /\ pc' = "returned"
    /\ UNCHANGED <<feeds, allEntries, config, aux, deliveries, runId, candidates, idx, at, created,
                   entryAttempts, deliverOk, calls, thumbnailFailed, thumbnailFile>>

-----------------------------------------------------------------------------

Next ==
    \/ \E ok \in SUBSET (1..Len(config.channels)) : StartRun(ok)
    \/ NoCandidates
    \/ BeginLoop
    \/ ProcessNext
    \/ Returned
    \/ RunCompleted
    \/ Crash
    \/ EntrySkip
    \/ EntryResume
    \/ EntryCreate
    \/ BeginPreflight
    \/ CallOk
    \/ CallFail
    \/ \E p \in PreflightResults : PreflightPass(p)
    \/ \E p \in PreflightResults : PreflightReject(p)
    \/ ThumbnailFail
    \/ ProbeOk
    \/ \E hasVideo, hasAudio \in BOOLEAN : ProbeMissing(hasVideo, hasAudio)
    \/ DeliverOk
    \/ \E k \in 1..Len(FileNames), written \in BOOLEAN, found \in ThumbnailFiles :
            DeliverFail(k, written, found)
    \/ MarkSucceeded

Spec == Init /\ [][Next]_vars

-----------------------------------------------------------------------------
(* The same program in a reliable environment: the process is never killed and
   every listing is fetched, so that every run started runs to its end. *)

\* The timer starts a run and every channel's listing is fetched.
ReliableStartRun ==
    /\ runId < ScenarioRuns
    /\ SelectCandidates(1..Len(config.channels))

NextReliable ==
    \/ ReliableStartRun
    \/ NoCandidates
    \/ BeginLoop
    \/ ProcessNext
    \/ Returned
    \/ RunCompleted
    \/ EntrySkip
    \/ EntryResume
    \/ EntryCreate
    \/ BeginPreflight
    \/ CallOk
    \/ CallFail
    \/ \E p \in PreflightResults : PreflightPass(p)
    \/ \E p \in PreflightResults : PreflightReject(p)
    \/ ThumbnailFail
    \/ ProbeOk
    \/ \E hasVideo, hasAudio \in BOOLEAN : ProbeMissing(hasVideo, hasAudio)
    \/ DeliverOk
    \/ \E k \in 1..Len(FileNames), written \in BOOLEAN, found \in ThumbnailFiles :
            DeliverFail(k, written, found)
    \/ MarkSucceeded

\* The retry ceiling of the end-to-end scenario is 3.
InitReliable == InitWith(Configs({3}))

SpecReliable == InitReliable /\ [][NextReliable]_vars

-----------------------------------------------------------------------------
(* The same program when the process can also die inside a write of job.json:
   writeJson is fs.writeFileSync on the file itself, which truncates the file
   and then writes, without a temporary file, a rename or an fsync. *)

\* What is left of a job.json whose write did not complete: no field of the
\* record can be read.
TornFile == NoJob

\* The process dies inside the saveJob of a step checkpoint: that of step 1,
\* or that of the step which follows the collaborator that just returned.
TornCheckpoint ==
    /\ \/ pc = "step"
       \/ /\ pc = "call"
          /\ at # "deliverJob"
          /\ StageOf(NextCall(at)) # StageOf(at)
    /\ jobs' = saveJob(Cur, TornFile)
    /\ pc' = "idle"
    /\ allEntries' = <<>>
    /\ candidates' = <<>>
    /\ idx' = 0
    /\ job' = NoJob
    /\ at' = ""
    /\ created' = FALSE
    /\ entryAttempts' = 0
    /\ result' = NoResult
    /\ calls' = <<>>
    /\ thumbnailFailed' = FALSE
    /\ thumbnailFile' = {}
    /\ UNCHANGED <<feeds, config, aux, deliveries, runId, deliverOk>>

NextTorn ==
    \/ Next
    \/ TornCheckpoint

SpecTorn == Init /\ [][NextTorn]_vars

-----------------------------------------------------------------------------
(* The same program when job.json files are also written from outside: an
   operator edits a record by hand, or a file is damaged. *)

\* The contents an outside write can leave in the job.json of v.
EditedContents(v) ==
    [video_id : {v}, status : {"pending", "running", ""}, attempts : {-1, 0},
     step : {"discovered"}, last_error : {NULL}, artifacts : {NoArtifacts}]

\* The job.json of v is rewritten from outside, between two calls of
\* processSingleVideo or between two runs.
HandEdit(v, content) ==
    /\ pc \in {"idle", "loop"}
    /\ jobExists(v)
    /\ jobs[v] # content
    /\ jobs' = saveJob(v, content)
    /\ UNCHANGED <<feeds, config, aux, deliveries, runId, pc, allEntries, candidates, idx, job,
                   at, created, entryAttempts, result, deliverOk, calls, thumbnailFailed, thumbnailFile>>

\* loadJob throws in the entry logic, which is outside the try block: the
\* promise of processSingleVideo rejects, runOnce rejects, main() logs the
\* error and the process exits with code 1.
EntryLoadFails ==
    /\ pc = "entry"
    /\ jobExists(Cur)
    /\ ~Loads(jobs[Cur])
    /\ pc' = "idle"
    /\ allEntries' = <<>>
    /\ candidates' = <<>>
    /\ idx' = 0
    /\ job' = NoJob
    /\ at' = ""
    /\ created' = FALSE
    /\ entryAttempts' = 0
    /\ result' = NoResult
    /\ calls' = <<>>
    /\ thumbnailFailed' = FALSE
    /\ thumbnailFile' = {}
    /\ UNCHANGED <<feeds, config, aux, jobs, deliveries, runId, deliverOk>>

NextEdited ==
    \/ Next
    \/ \E v \in Videos : \E content \in EditedContents(v) : HandEdit(v, content)
    \/ EntryLoadFails

\* One attempt per item, so that the records stay few.
InitEdited == InitWith(Configs({1}))

SpecEdited == InitEdited /\ [][NextEdited]_vars

-----------------------------------------------------------------------------
(* preflightPasses on its own: applied once to every preflight result, ceiling
   and excludeShorts flag explored. *)

\* The ceilings max_duration_seconds can be set to that are explored.
Ceilings == {MaxDurationFloor, DefaultMaxDuration, MaxDurationCeil}

\* The durations explored: around every ceiling.
Durations ==
    UNION {(c - DurationSlack)..(c + DurationSlack) : c \in Ceilings}

\* normalizePreflight: durationSeconds is a number or null, isLive a boolean.
PreflightInputs ==
    [isLive : BOOLEAN, durationSeconds : {{}} \cup {{d} : d \in Durations},
     shorts : BOOLEAN]

\* One configuration: the pipeline stands still in this specification.
IdlePipeline == PipelineInit({CHOOSE c \in Configs({MaxRetriesMax}) : TRUE})

InitPolicy ==
    /\ IdlePipeline
    /\ args \in [fn : {"preflightPasses"}, preflight : PreflightInputs,
                  maxDurationSeconds : Ceilings, excludeShorts : BOOLEAN]
    /\ ret = NoRet
    /\ NoCommand

ApplyPreflightPasses ==
    /\ args.fn = "preflightPasses"
    /\ ret = NoRet
    /\ ret' = [kind |-> "value",
               value |-> preflightPasses(args.preflight, args.maxDurationSeconds,
                                         args.excludeShorts)]
    /\ UNCHANGED <<args, command, pipeline, other>>

NextPolicy == ApplyPreflightPasses

SpecPolicy == InitPolicy /\ [][NextPolicy]_vars

-----------------------------------------------------------------------------
(* Text: a string is modelled as the sequence of its characters. *)

\* The characters String.prototype.trim and the regular expression \s take
\* for white space, among those explored.
IsSpace(c) == c \in {" ", "\n"}

RECURSIVE TrimStart(_)
TrimStart(text) ==
    IF text = <<>> THEN <<>>
    ELSE IF IsSpace(Head(text)) THEN TrimStart(Tail(text))
    ELSE text

RECURSIVE TrimEnd(_)
TrimEnd(text) ==
    IF text = <<>> THEN <<>>
    ELSE IF IsSpace(text[Len(text)]) THEN TrimEnd(SubSeq(text, 1, Len(text) - 1))
    ELSE text

\* String.prototype.trim
Trim(text) == TrimEnd(TrimStart(text))

\* The strings of length lo..hi over the characters chars.
Strings(chars, lo, hi) == UNION {[1..n -> chars] : n \in lo..hi}

\* text.split("\n") from character i on: the lines of a text, its pieces
\* between the line feeds.
RECURSIVE SplitLines(_, _, _)
SplitLines(text, i, line) ==
    IF i > Len(text) THEN <<line>>
    ELSE IF text[i] = "\n" THEN <<line>> \o SplitLines(text, i + 1, <<>>)
    ELSE SplitLines(text, i + 1, Append(line, text[i]))

-----------------------------------------------------------------------------
(* runCommand on its own, with the check its caller makes of the result; the
   child's close event is delivered once the child has been killed, and the
   timer fires while it is armed. *)

\* The characters the child writes.
OutputChars == {"a", " "}

Chunks == Strings(OutputChars, 1, MaxChunkLen)

appendChunk(buffer, chunk, maxChars) ==
    IF Len(buffer) >= maxChars THEN buffer
    ELSE LET remaining == maxChars - Len(buffer) IN
         buffer \o SubSeq(chunk, 1, IF Len(chunk) < remaining THEN Len(chunk) ELSE remaining)

\* The callers explored: preflight also requires a non-empty stdout, download
\* looks at the exit code only; timeoutMs 0 stands for options without one.
CommandCalls ==
    [fn : {"runCommand"}, caller : {"preflight", "download"},
     timeoutMs : {0, DefaultTimeoutMs}, maxOutputChars : 1..MaxOutputChars]

InitCommand ==
    /\ IdlePipeline
    /\ args \in CommandCalls
    /\ ret = NoRet
    /\ NoCommand

\* The executor of the promise: spawn, arm the timer, register the handlers.
RunCommand ==
    /\ args.fn = "runCommand"
    /\ promise = NoPromise
    /\ child' = [NoChild EXCEPT !.state = "running"]
    /\ timeoutId' = IF args.timeoutMs # 0 THEN "armed" ELSE "undefined"
    /\ promise' = [state |-> "pending"]
    /\ UNCHANGED <<args, ret, pipeline, other>>

\* child.stdout.on("data")
StdoutData(chunk) ==
    /\ child.state \in {"running", "killed"}
    /\ Len(child.wroteStdout) + Len(chunk) <= MaxWritten
    /\ child' = [child EXCEPT !.stdout = appendChunk(@, chunk, args.maxOutputChars),
                              !.wroteStdout = @ \o chunk]
    /\ UNCHANGED <<args, ret, timeoutId, promise, pipeline, other>>

\* child.stderr.on("data")
StderrData(chunk) ==
    /\ child.state \in {"running", "killed"}
    /\ Len(child.wroteStderr) + Len(chunk) <= MaxWritten
    /\ child' = [child EXCEPT !.stderr = appendChunk(@, chunk, args.maxOutputChars),
                              !.wroteStderr = @ \o chunk]
    /\ UNCHANGED <<args, ret, timeoutId, promise, pipeline, other>>

\* Variant: the timer callback does not kill the child.
TimerFires_NoKill ==
    /\ timeoutId = "armed"
    /\ timeoutId' = "fired"
    /\ UNCHANGED <<args, ret, child, promise, pipeline, other>>

\* The setTimeout callback: child.kill("SIGKILL").
TimerFires ==
    /\ timeoutId = "armed"
    /\ timeoutId' = "fired"
    /\ child' = IF child.state = "running" THEN [child EXCEPT !.state = "killed"] ELSE child
    /\ UNCHANGED <<args, ret, promise, pipeline, other>>

\* Variant: the handlers leave the timer armed.
clearTimeout_LeftArmed(id) == id

\* if (timeoutId) clearTimeout(timeoutId)
clearTimeout(id) == IF id = "armed" THEN "cleared" ELSE id

\* resolve and reject settle a pending promise and do nothing to a settled one.
Settle(outcome) == IF promise.state = "pending" THEN outcome ELSE promise

\* child.on("close"): code is {n} for an exit code, {} for null.
OnClose(code) ==
    /\ timeoutId' = clearTimeout(timeoutId)
    /\ promise' = Settle([state |-> "resolved",
                          value |-> [stdout |-> Trim(child.stdout),
                                     stderr |-> Trim(child.stderr),
                                     exitCode |-> code]])
    /\ child' = [child EXCEPT !.state = "closed"]
    /\ UNCHANGED <<args, ret, pipeline, other>>

\* The child ends by itself with an exit code.
ChildCloses(code) ==
    /\ child.state = "running"
    /\ OnClose({code})

\* The killed child is gone: close with code null (signal SIGKILL).
KilledCloses ==
    /\ child.state = "killed"
    /\ OnClose({})

\* child.on("error"): the process could not be spawned.
SpawnError ==
    /\ child.state = "running"
    /\ child.wroteStdout = <<>>
    /\ child.wroteStderr = <<>>
    /\ timeoutId' = clearTimeout(timeoutId)
    /\ promise' = Settle([state |-> "rejected", value |-> "spawn error"])
    /\ child' = [child EXCEPT !.state = "error"]
    /\ UNCHANGED <<args, ret, pipeline, other>>

\* After a spawn error the close event follows, with the negative error code.
CloseAfterError ==
    /\ child.state = "error"
    /\ OnClose({-2})

\* Variant: the caller tests the exit code for truthiness, null passes.
ToolFailed_TruthyCheck(caller, r) ==
    \/ r.exitCode \notin {{0}, {}}
    \/ caller = "preflight" /\ r.stdout = <<>>

\* result.exitCode !== 0 (|| !result.stdout in preflight)
ToolFailed(caller, r) ==
    \/ r.exitCode # {0}
    \/ caller = "preflight" /\ r.stdout = <<>>

\* The caller's await returns or throws, and the caller checks the result.
AwaitReturns ==
    /\ promise.state \in {"resolved", "rejected"}
    /\ ret = NoRet
    /\ ret' = IF promise.state = "rejected"
              THEN [kind |-> "throw", error |-> promise.value]
              ELSE IF ToolFailed(args.caller, promise.value)
              THEN [kind |-> "throw", error |-> "tool failed"]
              ELSE [kind |-> "value"]
    /\ UNCHANGED <<args, command, pipeline, other>>

NextCommand ==
    \/ RunCommand
    \/ \E chunk \in Chunks : StdoutData(chunk)
    \/ \E chunk \in Chunks : StderrData(chunk)
    \/ TimerFires
    \/ \E code \in {0, 1} : ChildCloses(code)
    \/ KilledCloses
    \/ SpawnError
    \/ CloseAfterError
    \/ AwaitReturns

SpecCommand ==
    /\ InitCommand
    /\ [][NextCommand]_vars
    /\ WF_vars(RunCommand)
    /\ WF_vars(TimerFires)
    /\ WF_vars(KilledCloses)
    /\ WF_vars(AwaitReturns)

-----------------------------------------------------------------------------
(* postProcessText on its own: applied once to every text, maxCharsPerLine and
   maxLines explored. *)

\* The characters of the texts explored: a letter, a blank and the ideograph
\* U+4E2D (each element of a text is one character, named by a string).
TextChars == {"a", " ", "U4E2D"}

\* The characters the regular expression of line 30 matches, among TextChars.
CJKChars == {"U4E2D"}

isCJK(text) == \E i \in 1..Len(text) : text[i] \in CJKChars

\* The loop of the CJK branch from character i on: the lines pushed so far and
\* the current line.
RECURSIVE WrapChars(_, _, _, _, _)
WrapChars(text, i, lines, currentLine, maxCharsPerLine) ==
    IF i > Len(text)
    THEN (IF currentLine # <<>> THEN Append(lines, currentLine) ELSE lines)
    ELSE IF Len(currentLine) >= maxCharsPerLine
         THEN WrapChars(text, i + 1, Append(lines, currentLine), <<text[i]>>, maxCharsPerLine)
         ELSE WrapChars(text, i + 1, lines, Append(currentLine, text[i]), maxCharsPerLine)

\* text.split(/\s+/) of a trimmed text, from character i on: words is the
\* list of the words that are complete, word the one being read.
RECURSIVE SplitWords(_, _, _, _)
SplitWords(text, i, words, word) ==
    IF i > Len(text) THEN Append(words, word)
    ELSE IF IsSpace(text[i])
         THEN (IF i > 1 /\ IsSpace(text[i - 1])
               THEN SplitWords(text, i + 1, words, word)
               ELSE SplitWords(text, i + 1, Append(words, word), <<>>))
         ELSE SplitWords(text, i + 1, words, Append(word, text[i]))

\* The loop of the other branch from word i on.
RECURSIVE WrapWords(_, _, _, _, _)
WrapWords(words, i, lines, currentLine, maxCharsPerLine) ==
    IF i > Len(words)
    THEN (IF currentLine # <<>> THEN Append(lines, currentLine) ELSE lines)
    ELSE LET word == words[i]
             testLine == IF currentLine # <<>> THEN currentLine \o <<" ">> \o word ELSE word
         IN  IF Len(testLine) > maxCharsPerLine /\ currentLine # <<>>
             THEN WrapWords(words, i + 1, Append(lines, currentLine), word, maxCharsPerLine)
             ELSE WrapWords(words, i + 1, lines, testLine, maxCharsPerLine)

\* lines before the limit to maxLines, for a trimmed text that does not fit.
WrapLines(text, maxCharsPerLine) ==
    IF isCJK(text) THEN WrapChars(text, 1, <<>>, <<>>, maxCharsPerLine)
    ELSE WrapWords(SplitWords(text, 1, <<>>, <<>>), 1, <<>>, <<>>, maxCharsPerLine)

Ellipsis == [i \in 1..EllipsisLen |-> "."]

\* lastLine.substring(0, n): a negative n counts as 0.
Substring(line, n) ==
    SubSeq(line, 1, IF n < 0 THEN 0 ELSE IF n > Len(line) THEN Len(line) ELSE n)

\* if (lines.length > maxLines): slice, and the ellipsis on a last line longer
\* than maxCharsPerLine - 3.
LimitLines(lines, maxCharsPerLine, maxLines) ==
    IF Len(lines) > maxLines
    THEN LET kept == SubSeq(lines, 1, maxLines)
             lastLine == kept[maxLines]
         IN  IF Len(lastLine) > maxCharsPerLine - EllipsisLen
             THEN [kept EXCEPT ![maxLines] =
                        Substring(lastLine, maxCharsPerLine - EllipsisLen) \o Ellipsis]
             ELSE kept
    ELSE lines

\* lines.join("\n")
RECURSIVE Join(_)
Join(lines) ==
    IF lines = <<>> THEN <<>>
    ELSE IF Len(lines) = 1 THEN lines[1]
    ELSE lines[1] \o <<"\n">> \o Join(Tail(lines))

\* Variant: the test for a text that already fits is missing.
postProcessText_NoEarlyReturn(text, maxCharsPerLine, maxLines) ==
    Join(LimitLines(WrapLines(Trim(text), maxCharsPerLine), maxCharsPerLine, maxLines))

postProcessText(text, maxCharsPerLine, maxLines) ==
    LET trimmed == Trim(text) IN
    IF Len(trimmed) <= maxCharsPerLine THEN trimmed
    ELSE Join(LimitLines(WrapLines(trimmed, maxCharsPerLine), maxCharsPerLine, maxLines))

Texts == Strings(TextChars, 0, MaxTextLen)

\* maxCharsPerLine leaves room for the ellipsis, as the default of 18 does.
WrapCalls ==
    [fn : {"postProcessText"}, text : Texts,
     maxCharsPerLine : (EllipsisLen + 1)..MaxCharsPerLine, maxLines : 1..MaxLines]

InitWrap ==
    /\ IdlePipeline
    /\ args \in WrapCalls
    /\ ret = NoRet
    /\ NoCommand

ApplyPostProcessText ==
    /\ args.fn = "postProcessText"
    /\ ret = NoRet
    /\ ret' = [kind |-> "value",
               value |-> postProcessText(args.text, args.maxCharsPerLine, args.maxLines)]
    /\ UNCHANGED <<args, command, pipeline, other>>

NextWrap == ApplyPostProcessText

SpecWrap == InitWrap /\ [][NextWrap]_vars

-----------------------------------------------------------------------------
(* Subtitles: segmentsToSrt and parseSrt applied one after the other to a list
   of segments.  A number of seconds is modelled as a whole number of ticks,
   TicksPerMs of them to the millisecond. *)

Ms(n) == n * TicksPerMs

DigitChars == <<"0", "1", "2", "3", "4", "5", "6", "7", "8", "9">>

IsDigit(c) == \E i \in 1..Len(DigitChars) : DigitChars[i] = c

\* parseInt(c, 10) of one digit
DigitVal(c) == (CHOOSE i \in 1..Len(DigitChars) : DigitChars[i] = c) - 1

\* Number.prototype.toString and String(n) of a non-negative integer
RECURSIVE ToDigits(_)
ToDigits(n) ==
    IF n < 10 THEN <<DigitChars[n + 1]>>
    ELSE ToDigits(n \div 10) \o <<DigitChars[(n % 10) + 1]>>

\* parseInt(s, 10) of a string of digits
RECURSIVE ParseInt(_)
ParseInt(s) ==
    IF s = <<>> THEN 0
    ELSE 10 * ParseInt(SubSeq(s, 1, Len(s) - 1)) + DigitVal(s[Len(s)])

\* String.prototype.padStart(targetLength, "0")
RECURSIVE PadStart(_, _)
PadStart(s, targetLength) ==
    IF Len(s) >= targetLength THEN s ELSE PadStart(<<"0">> \o s, targetLength)

\* Variant: the milliseconds are not padded to three digits.
formatTimestamp_MillisNotPadded(seconds) ==
    LET hours == seconds \div Ms(3600000)
        minutes == (seconds % Ms(3600000)) \div Ms(60000)
        secs == (seconds % Ms(60000)) \div Ms(1000)
        millis == (seconds % Ms(1000)) \div Ms(1)
    IN  PadStart(ToDigits(hours), 2) \o <<":">> \o PadStart(ToDigits(minutes), 2) \o <<":">>
            \o PadStart(ToDigits(secs), 2) \o <<",">> \o ToDigits(millis)

\* HH:MM:SS,mmm; every part is rounded down.
formatTimestamp(seconds) ==
    LET hours == seconds \div Ms(3600000)
        minutes == (seconds % Ms(3600000)) \div Ms(60000)
        secs == (seconds % Ms(60000)) \div Ms(1000)
        millis == (seconds % Ms(1000)) \div Ms(1)
    IN  PadStart(ToDigits(hours), 2) \o <<":">> \o PadStart(ToDigits(minutes), 2) \o <<":">>
            \o PadStart(ToDigits(secs), 2) \o <<",">> \o PadStart(ToDigits(millis), 3)

\* The four lines segmentsToSrt pushes for the segment at position i.
SrtEntry(seg, i) ==
    << ToDigits(i),
       formatTimestamp(seg.start) \o <<" ", "-", "-", ">", " ">> \o formatTimestamp(seg.end),
       Trim(seg.text),
       <<>> >>

RECURSIVE SrtLines(_, _)
SrtLines(segments, i) ==
    IF i > Len(segments) THEN <<>>
    ELSE SrtEntry(segments[i], i) \o SrtLines(segments, i + 1)

segmentsToSrt(segments) == Join(SrtLines(segments, 1))

\* content.split(/\n\n+/) from character i on: a run of two or more line
\* feeds ends a block; block is the one being read.
RECURSIVE SplitBlocks(_, _, _)
SplitBlocks(content, i, block) ==
    IF i > Len(content) THEN <<block>>
    ELSE IF content[i] = "\n" /\ i < Len(content) /\ content[i + 1] = "\n"
         THEN LET after == CHOOSE k \in (i + 2)..(Len(content) + 1) :
                              /\ \A m \in (i + 2)..(k - 1) : content[m] = "\n"
                              /\ k <= Len(content) => content[k] # "\n"
              IN  <<block>> \o SplitBlocks(content, after, <<>>)
         ELSE SplitBlocks(content, i + 1, Append(block, content[i]))

\* (\d{2}):(\d{2}):(\d{2}),(\d{3}) matches line at position p.
TimestampAt(line, p) ==
    /\ p >= 1
    /\ p + 11 <= Len(line)
    /\ \A k \in {0, 1, 3, 4, 6, 7, 9, 10, 11} : IsDigit(line[p + k])
    /\ line[p + 2] = ":"
    /\ line[p + 5] = ":"
    /\ line[p + 8] = ","

\* \s* from position i on: the position of the first character that is not
\* white space.
RECURSIVE SkipSpace(_, _)
SkipSpace(line, i) ==
    IF i <= Len(line) /\ IsSpace(line[i]) THEN SkipSpace(line, i + 1) ELSE i

\* Where the second timestamp begins when the whole pattern matches at p.
ArrowAfter(line, p) ==
    LET a == SkipSpace(line, p + 12) IN
    IF a + 2 <= Len(line) /\ line[a] = "-" /\ line[a + 1] = "-" /\ line[a + 2] = ">"
    THEN {SkipSpace(line, a + 3)}
    ELSE {}

\* The positions at which the pattern of the timestamp line matches.
MatchPositions(line) ==
    {p \in 1..Len(line) :
        /\ TimestampAt(line, p)
        /\ \E q \in ArrowAfter(line, p) : TimestampAt(line, q)}

\* hours * 3600 + minutes * 60 + seconds + millis / 1000 of the timestamp at p
TimestampValue(line, p) ==
    Ms(ParseInt(SubSeq(line, p, p + 1)) * 3600000
        + ParseInt(SubSeq(line, p + 3, p + 4)) * 60000
        + ParseInt(SubSeq(line, p + 6, p + 7)) * 1000
        + ParseInt(SubSeq(line, p + 9, p + 11)))

\* The segments one block contributes: none when it has fewer than three lines
\* or its second line does not match.
ParseBlock(block) ==
    LET lines == SplitLines(block, 1, <<>>) IN
    IF Len(lines) < 3 THEN <<>>
    ELSE IF MatchPositions(lines[2]) = {} THEN <<>>
    ELSE LET p == CHOOSE x \in MatchPositions(lines[2]) :
                      \A y \in MatchPositions(lines[2]) : x <= y
             q == CHOOSE x \in ArrowAfter(lines[2], p) : TRUE
         IN  << [start |-> TimestampValue(lines[2], p),
                 end |-> TimestampValue(lines[2], q),
                 text |-> Trim(Join(SubSeq(lines, 3, Len(lines))))] >>

RECURSIVE ParseBlocks(_, _)
ParseBlocks(blocks, i) ==
    IF i > Len(blocks) THEN <<>>
    ELSE ParseBlock(blocks[i]) \o ParseBlocks(blocks, i + 1)

parseSrt(content) == ParseBlocks(SplitBlocks(Trim(content), 1, <<>>), 1)

\* The characters of the segment texts explored.
SegmentChars == {"a", " ", "\n"}

SegmentTexts == Strings(SegmentChars, 0, MaxSegmentTextLen) \cup {<<"h", "i">>}

\* The start and end times explored: 0, 1.5 s, times between two milliseconds,
\* the last millisecond before 100 hours and 100 hours.
StartTimes == {0, Ms(1001) + 1, Ms(360000000)}

EndTimes == {Ms(1500), Ms(359999999) + 1, Ms(360000000)}

\* A segment of a list whose other segments are explored: one second long,
\* placed by its position, with a one-letter text.
PlainSegment(i) == [start |-> Ms(1000 * i), end |-> Ms(1000 * i + 500), text |-> <<"a">>]

\* The lists explored: up to MaxSegments segments, one of them with any of the
\* times and texts explored.
SegmentLists ==
    {<<>>} \cup
    {[i \in 1..n |-> IF i = k THEN seg ELSE PlainSegment(i)] :
        n \in 1..MaxSegments, k \in 1..MaxSegments,
        seg \in [start : StartTimes, end : EndTimes, text : SegmentTexts]}

InitSrt ==
    /\ IdlePipeline
    /\ args \in [fn : {"segmentsToSrt"}, segments : SegmentLists]
    /\ ret = NoRet
    /\ NoCommand

ApplySegmentsToSrt ==
    /\ args.fn = "segmentsToSrt"
    /\ ret = NoRet
    /\ ret' = [kind |-> "srt", content |-> segmentsToSrt(args.segments)]
    /\ UNCHANGED <<args, command, pipeline, other>>

ApplyParseSrt ==
    /\ ret.kind = "srt"
    /\ ret' = [kind |-> "value", content |-> ret.content, value |-> parseSrt(ret.content)]
    /\ UNCHANGED <<args, command, pipeline, other>>

NextSrt ==
    \/ ApplySegmentsToSrt
    \/ ApplyParseSrt

SpecSrt == InitSrt /\ [][NextSrt]_vars

-----------------------------------------------------------------------------
(* translateSegments on its own: applied once to every list of segments, with
   the display constraint explored. *)

\* sourceSegments.map: the times are copied, the text is post-processed.
translateSegment(seg, maxCharsPerLine, maxLines) ==
    [start |-> seg.start, end |-> seg.end,
     text |-> postProcessText(seg.text, maxCharsPerLine, maxLines)]

\* Variant: a segment whose text comes out empty is left out.
translateSegments_DropsEmpty(sourceSegments, maxCharsPerLine, maxLines) ==
    SelectSeq([i \in 1..Len(sourceSegments) |->
                  translateSegment(sourceSegments[i], maxCharsPerLine, maxLines)],
              LAMBDA seg : seg.text # <<>>)

translateSegments(sourceSegments, maxCharsPerLine, maxLines) ==
    [i \in 1..Len(sourceSegments) |->
        translateSegment(sourceSegments[i], maxCharsPerLine, maxLines)]

\* The options explored: a line shorter than the longest text, so that texts
\* are wrapped and cut, and the longest line of the texts above.
TranslateCalls ==
    [fn : {"translateSegments"}, sourceSegments : SegmentLists,
     maxCharsPerLine : {MaxSegmentTextLen - 1, MaxCharsPerLine}, maxLines : 1..MaxLines]

InitTranslate ==
    /\ IdlePipeline
    /\ args \in TranslateCalls
    /\ ret = NoRet
    /\ NoCommand

ApplyTranslateSegments ==
    /\ args.fn = "translateSegments"
    /\ ret = NoRet
    /\ ret' = [kind |-> "value",
               value |-> translateSegments(args.sourceSegments, args.maxCharsPerLine,
                                           args.maxLines)]
    /\ UNCHANGED <<args, command, pipeline, other>>

NextTranslate == ApplyTranslateSegments

SpecTranslate == InitTranslate /\ [][NextTranslate]_vars

-----------------------------------------------------------------------------
(* The selector on its own: fetchAndFilterCandidates applied once to every
   combination of feeds, channel list, per-run maximum and existing records. *)

\* The videos a channel's feed can list.
OwnedBy(ch) == IF ch = "UCa" THEN {"v1", "v3"} ELSE {"v2"}

FeedEntries(ch) ==
    [video_id : OwnedBy(ch), published_at : 1..MaxTime, channel_id : {ch}]

\* A feed lists each of its videos at most once, in any order.
PossibleFeeds(ch) ==
    UNION {{q \in [1..n -> FeedEntries(ch)] :
                \A i, j \in 1..n : q[i].video_id = q[j].video_id => i = j} :
           n \in 0..Cardinality(OwnedBy(ch))}

SelectorConfigs ==
    [retries_max : {MaxRetriesMax},
     max_videos_per_run : 1..MaxPerRun,
     max_duration_seconds : {DefaultMaxDuration},
     channels : ChannelLists]

InitSelector ==
    /\ config \in SelectorConfigs
    /\ feeds \in {f \in [Channels -> UNION {PossibleFeeds(ch) : ch \in Channels}] :
                    \A ch \in Channels : f[ch] \in PossibleFeeds(ch)}
    /\ jobs \in {[v \in S |-> createJob(v)] : S \in SUBSET Videos}
    /\ deliveries = [d \in {} |-> NoArtifacts]
    /\ runId = 0
    /\ pc = "idle"
    /\ allEntries = <<>>
    /\ candidates = <<>>
    /\ idx = 0
    /\ job = NoJob
    /\ at = ""
    /\ created = FALSE
    /\ entryAttempts = 0
    /\ result = NoResult
    /\ deliverOk = [v \in Videos |-> 0]
    /\ calls = <<>>
    /\ thumbnailFailed = FALSE
    /\ thumbnailFile = {}
    /\ other = NoOther
    /\ NoCall

NextSelector ==
    \E ok \in SUBSET (1..Len(config.channels)) : StartRun(ok)

SpecSelector == InitSelector /\ [][NextSelector]_vars

-----------------------------------------------------------------------------
(* Two invocations of runOnce on the same jobs directory *)

\* The run directory of the other invocation (buildRunId of its start time),
\* a name that no run of this process has.
OtherRunId == MaxRuns + 1

\* runOnce of the other invocation: prepareWorkspace and the selector, which
\* reads the jobs directory as it is now.
OtherStartRun(ok) ==
    /\ other.pc = "idle"
    /\ other' = [other EXCEPT !.pc = "loop",
                              !.candidates = fetchAndFilterCandidates(ok),
                              !.idx = 1]
    /\ UNCHANGED <<args, ret, command, pipeline>>

\* processSingleVideo of the other invocation finds a terminal record and
\* returns skipped.
OtherEntrySkip ==
    /\ other.pc = "loop"
    /\ other.idx <= Len(other.candidates)
    /\ LET v == other.candidates[other.idx].videoId IN
        /\ jobExists(v)
        /\ Loads(jobs[v])
        /\ IsSucceeded(loadJob(v)) \/ IsFailed(loadJob(v))
    /\ other' = [other EXCEPT !.idx = @ + 1]
    /\ UNCHANGED <<args, ret, command, pipeline>>

\* It finds a record that is neither succeeded nor failed and goes on with it.
OtherEntryResume ==
    /\ other.pc = "loop"
    /\ other.idx <= Len(other.candidates)
    /\ LET v == other.candidates[other.idx].videoId IN
        /\ jobExists(v)
        /\ Loads(jobs[v])
        /\ ~IsSucceeded(loadJob(v))
        /\ ~IsFailed(loadJob(v))
        /\ other' = [other EXCEPT !.pc = "processing",
                                  !.job = loadJob(v),
                                  !.processed = @ \cup {v}]
    /\ UNCHANGED <<args, ret, command, pipeline>>

\* It finds no record and creates one.
OtherEntryCreate ==
    /\ other.pc = "loop"
    /\ other.idx <= Len(other.candidates)
    /\ LET v == other.candidates[other.idx].videoId IN
        /\ ~jobExists(v)
        /\ jobs' = saveJob(v, createJob(v))
        /\ other' = [other EXCEPT !.pc = "processing",
                                  !.job = createJob(v),
                                  !.processed = @ \cup {v}]
    /\ UNCHANGED <<args, ret, command, feeds, config, deliveries, runId, pc, allEntries,
                   candidates, idx, job, at, created, entryAttempts, result, deliverOk, calls,
                   thumbnailFailed, thumbnailFile>>

\* The rest of the call with every collaborator succeeding, its checkpoints
\* taken together with its last save: deliverJob copies the three files into
\* the item directory of the other run, and the record is marked succeeded.
OtherCallSucceeds ==
    /\ other.pc = "processing"
    /\ LET v == other.candidates[other.idx].videoId
           d == <<OtherRunId, v>>
           tree == EnsureDir(deliveries, d)
           final == markSucceeded(
                        [other.job EXCEPT
                            !.artifacts = buildArtifacts(DeliveryResult(OtherRunId, v))],
                        "deliver")
       IN  /\ deliveries' = [tree EXCEPT ![d] = Copied(tree[d], Len(FileNames), 1)]
           /\ deliverOk' = [deliverOk EXCEPT ![v] = @ + 1]
           /\ jobs' = saveJob(v, final)
           /\ other' = [other EXCEPT !.pc = "loop", !.idx = @ + 1, !.job = NoJob,
                                     !.delivered = @ \cup {v}]
    /\ UNCHANGED <<args, ret, command, feeds, config, runId, pc, allEntries, candidates, idx,
                   job, at, created, entryAttempts, result, calls, thumbnailFailed,
                   thumbnailFile>>

\* The rest of the call with a collaborator throwing, at the stage the record
\* was last checkpointed at: the catch block.
OtherCallFails(stage, errorMsg) ==
    /\ other.pc = "processing"
    /\ LET v == other.candidates[other.idx].videoId
           incremented == incrementAttempts(updateStep(other.job, stage), errorMsg)
           final == IF MaxRetriesReached(incremented) THEN markFailed(incremented)
                    ELSE incremented
       IN  /\ jobs' = saveJob(v, final)
           /\ other' = [other EXCEPT !.pc = "loop", !.idx = @ + 1, !.job = NoJob]
    /\ UNCHANGED <<args, ret, command, feeds, config, deliveries, runId, pc, allEntries,
                   candidates, idx, job, at, created, entryAttempts, result, deliverOk, calls,
                   thumbnailFailed, thumbnailFile>>

\* The loop of the other invocation is over.
OtherRunCompleted ==
    /\ other.pc = "loop"
    /\ other.idx > Len(other.candidates)
    /\ other' = [other EXCEPT !.pc = "done"]
    /\ UNCHANGED <<args, ret, command, pipeline>>

\* One invocation in full and the other one started at any moment of it: the
\* timer starts a process of its own for every run.
NextOverlap ==
    \/ runId = 0 /\ \E ok \in SUBSET (1..Len(config.channels)) : StartRun(ok)
    \/ NoCandidates
    \/ BeginLoop
    \/ ProcessNext
    \/ Returned
    \/ RunCompleted
    \/ EntrySkip
    \/ EntryResume
    \/ EntryCreate
    \/ BeginPreflight
    \/ CallOk
    \/ CallFail
    \/ \E p \in PreflightResults : PreflightPass(p)
    \/ \E p \in PreflightResults : PreflightReject(p)
    \/ ThumbnailFail
    \/ ProbeOk
    \/ \E hasVideo, hasAudio \in BOOLEAN : ProbeMissing(hasVideo, hasAudio)
    \/ DeliverOk
    \/ \E k \in 1..Len(FileNames), written \in BOOLEAN, found \in ThumbnailFiles :
            DeliverFail(k, written, found)
    \/ MarkSucceeded
    \/ \E ok \in SUBSET (1..Len(config.channels)) : OtherStartRun(ok)
    \/ OtherEntrySkip
    \/ OtherEntryResume
    \/ OtherEntryCreate
    \/ OtherCallSucceeds
    \/ OtherCallFails("render", "ffmpeg exited with code 1")
    \/ OtherRunCompleted

InitOverlap == InitWith(Configs({MaxRetriesMax}))

SpecOverlap == InitOverlap /\ [][NextOverlap]_vars

-----------------------------------------------------------------------------
(* withRetries, fetchText and fetchChannelFeed *)

\* baseDelayMs when fetchText is given none
DefaultBaseDelayMs == 500
\* retries when fetchChannelFeed is given none
DefaultFeedRetries == 2
\* maxDelay when withRetries is given no maxDelayMs: baseDelayMs times this
DefaultMaxDelayFactor == 8

\* 2 ** n
RECURSIVE TwoToThe(_)
TwoToThe(n) == IF n <= 0 THEN 1 ELSE 2 * TwoToThe(n - 1)

\* options.maxDelayMs ?? options.baseDelayMs * 8 ({} is undefined)
maxDelay(options) ==
    IF options.maxDelayMs = {}
    THEN options.baseDelayMs * DefaultMaxDelayFactor
    ELSE CHOOSE d \in options.maxDelayMs : TRUE

\* Variant: the delay doubles from 2 * baseDelayMs on.
RetryDelay_FromNextAttempt(options, attempt) ==
    LET d == options.baseDelayMs * TwoToThe(attempt + 1)
    IN  IF d <= maxDelay(options) THEN d ELSE maxDelay(options)

\* Math.min(options.baseDelayMs * 2 ** attempt, maxDelay)
RetryDelay(options, attempt) ==
    LET d == options.baseDelayMs * TwoToThe(attempt)
    IN  IF d <= maxDelay(options) THEN d ELSE maxDelay(options)

\* The options fetchText hands to withRetries.
fetchText(options) ==
    [retries |-> options.retries,
     baseDelayMs |-> IF options.baseDelayMs = {} THEN DefaultBaseDelayMs
                     ELSE CHOOSE b \in options.baseDelayMs : TRUE,
     maxDelayMs |-> {}]

\* The options fetchChannelFeed hands to fetchText.
fetchChannelFeed(options) ==
    fetchText([retries |-> IF options.retries = {} THEN DefaultFeedRetries
                           ELSE CHOOSE r \in options.retries : TRUE,
               baseDelayMs |-> {DefaultBaseDelayMs}])

\* What an invocation of the action resolves with or rejects with.
ActionValues == {"xml"}
ActionErrors == {"HTTP 500 Internal Server Error", "AbortError"}

RetryOptions ==
    [retries : -1..MaxFetchRetries,
     baseDelayMs : {1, DefaultBaseDelayMs},
     maxDelayMs : {{}, {0}, {2 * DefaultBaseDelayMs}}]

\* withRetries called directly, and by fetchChannelFeed as the selector calls
\* it (no options) and with a number of retries.
RetryCalls ==
    {[fn |-> "withRetries", options |-> o] : o \in RetryOptions}
    \cup {[fn |-> "fetchChannelFeed", options |-> fetchChannelFeed([retries |-> r])] :
            r \in {{}} \cup {{n} : n \in 0..MaxFetchRetries}}

\* withRetries is at the head of its loop with attempt = 0; invoked is the
\* log of the invocations of the action, slept the log of the sleeps.
InitRetry ==
    /\ IdlePipeline
    /\ args \in RetryCalls
    /\ ret = [kind |-> "running", attempt |-> 0, invoked |-> <<>>, slept |-> <<>>,
              value |-> ""]
    /\ NoCommand

Invoked(attempt, ok, value) ==
    Append(ret.invoked, [attempt |-> attempt, ok |-> ok, value |-> value])

\* return await action(attempt): the invocation resolves.
ActionResolves(value) ==
    /\ args.fn \in {"withRetries", "fetchChannelFeed"}
    /\ ret.kind = "running"
    /\ ret.attempt <= args.options.retries
    /\ ret' = [ret EXCEPT !.kind = "returned",
                          !.invoked = Invoked(ret.attempt, TRUE, value),
                          !.value = value]
    /\ UNCHANGED <<args, command, pipeline, other>>

\* The invocation rejects: the catch block rethrows at the last attempt, and
\* otherwise sleeps and goes round the loop.
ActionRejects(error) ==
    /\ args.fn \in {"withRetries", "fetchChannelFeed"}
    /\ ret.kind = "running"
    /\ ret.attempt <= args.options.retries
    /\ ret' = IF ret.attempt >= args.options.retries
              THEN [ret EXCEPT !.kind = "threw",
                               !.invoked = Invoked(ret.attempt, FALSE, error),
                               !.value = error]
              ELSE [ret EXCEPT !.attempt = ret.attempt + 1,
                               !.invoked = Invoked(ret.attempt, FALSE, error),
                               !.slept = Append(ret.slept,
                                                RetryDelay(args.options, ret.attempt))]
    /\ UNCHANGED <<args, command, pipeline, other>>

\* The loop ends without an invocation having returned or rethrown.
RetriesExhausted ==
    /\ args.fn \in {"withRetries", "fetchChannelFeed"}
    /\ ret.kind = "running"
    /\ ret.attempt > args.options.retries
    /\ ret' = [ret EXCEPT !.kind = "threw", !.value = "Retry attempts exhausted"]
    /\ UNCHANGED <<args, command, pipeline, other>>

NextRetry ==
    \/ \E value \in ActionValues : ActionResolves(value)
    \/ \E error \in ActionErrors : ActionRejects(error)
    \/ RetriesExhausted

SpecRetry == InitRetry /\ [][NextRetry]_vars

-----------------------------------------------------------------------------
(* Vocabulary of the properties *)

\* processSingleVideo is on the stack.
InCall == pc \in {"entry", "step", "call", "mark", "returned"}

\* processSingleVideo is past its entry logic and has not returned: the
\* processing logic (checkpoints and collaborators) is running for v.
Processing(v) == pc \in {"step", "call", "mark"} /\ Cur = v

Terminal(j) == j.status \in {"succeeded", "failed"}

CandidateIds == {candidates[i].videoId : i \in 1..Len(candidates)}

ListedIds == {allEntries[i].video_id : i \in 1..Len(allEntries)}

Max(a, b) == IF a >= b THEN a ELSE b

Min(a, b) == IF a <= b THEN a ELSE b

HasNoJob(entry) == ~jobExists(entry.video_id)

\* The record shape of the data model: status is one of the three states and
\* attempts is a non-negative integer.
RecordShape(j) ==
    /\ j.video_id # ""
    /\ j.status \in {"pending", "succeeded", "failed"}
    /\ j.attempts >= 0
    /\ j.step # ""

\* postProcessText has been applied.
Wrapped == args.fn = "postProcessText" /\ ret.kind = "value"

EndsWith(line, suffix) ==
    /\ Len(line) >= Len(suffix)
    /\ SubSeq(line, Len(line) - Len(suffix) + 1, Len(line)) = suffix

\* parseSrt has been applied to what segmentsToSrt returned.
RoundTripped == args.fn = "segmentsToSrt" /\ ret.kind = "value"

WithinOneMs(a, b) == a - b <= Ms(1) /\ b - a <= Ms(1)

\* A segment the subtitle format can carry: a text that is not blank and has
\* no blank line inside, times below 100 hours.
Printable(seg) ==
    /\ Trim(seg.text) # <<>>
    /\ \A i \in 1..(Len(Trim(seg.text)) - 1) :
            ~(Trim(seg.text)[i] = "\n" /\ Trim(seg.text)[i + 1] = "\n")
    /\ seg.start < Ms(360000000)
    /\ seg.end < Ms(360000000)

\* The call has returned from a failure of deliverJob that is deliverJob's
\* own: one of the first two artifacts was missing or its copy came out empty,
\* or the copy of a thumbnail that was there and not empty came out empty.
DeliverFailedByItself ==
    \/ \E k \in 1..(Len(FileNames) - 1) :
            result.reason \in {SourceNotFound(FileNames[k]), FailedToCopy(FileNames[k])}
    \/ /\ result.reason = FailedToCopy(FileNames[Len(FileNames)])
       /\ thumbnailFile = {1}

\* The channels at the positions in ok, in configuration order.
RECURSIVE KeepPositions(_, _, _)
KeepPositions(chs, ok, i) ==
    IF i > Len(chs) THEN <<>>
    ELSE (IF i \in ok THEN <<chs[i]>> ELSE <<>>) \o KeepPositions(chs, ok, i + 1)

-----------------------------------------------------------------------------
(* Properties *)

\* C1: deliverJob completes successfully at most once per item id, and once
\* the record is saved as succeeded no call of processSingleVideo for that id
\* stands at the deliverJob call again.
C1_DeliveredAtMostOnce ==
    \A v \in Videos :
        /\ deliverOk[v] <= 1
        /\ (v \in DOMAIN jobs /\ jobs[v].status = "succeeded")
              => ~(pc = "call" /\ at = "deliverJob" /\ Cur = v)

\* A later call for a delivered id came back skipped.
C1_Witness ==
    /\ pc = "returned"
    /\ result = [status |-> "skipped", reason |-> "already succeeded"]
    /\ deliverOk[Cur] = 1

\* C2 as stated: the persisted attempts never exceed retries_max.
C2_AttemptsWithinCeiling ==
    \A v \in DOMAIN jobs : jobs[v].attempts <= config.retries_max

\* C2 amended: the persisted attempts never exceed retries_max, except that
\* with retries_max = 0 the one attempt that finds the failure is counted.
C2_AttemptsWithinCeilingOrOne ==
    \A v \in DOMAIN jobs : jobs[v].attempts <= Max(config.retries_max, 1)

\* A record reached the ceiling through repeated attempts.
C2_Witness ==
    \E v \in DOMAIN jobs :
        /\ config.retries_max >= 2
        /\ jobs[v].attempts = config.retries_max
        /\ jobs[v].status = "failed"

\* C3: once a persisted record is succeeded or failed its status never changes
\* and the processing logic never runs for that id; only the skip path does.
C3_TerminalIsFinal ==
    /\ [](\A v \in DOMAIN jobs : Terminal(jobs[v]) => ~Processing(v))
    /\ [][\A v \in DOMAIN jobs : Terminal(jobs[v]) => jobs'[v].status = jobs[v].status]_vars

\* A later call for a failed id came back skipped.
C3_Witness ==
    /\ pc = "returned"
    /\ result = [status |-> "skipped", reason |-> "already failed (max retries)"]
    /\ jobs[Cur].status = "failed"

\* C4: when a run has made its selection, every record left pending by an
\* earlier run is among the items the run will call processSingleVideo for.
C4_PendingReprocessedNextRun ==
    pc = "selected" =>
        \A v \in DOMAIN jobs : jobs[v].status = "pending" => v \in CandidateIds

\* C5: a record is failed only if its attempts reached retries_max or a
\* preflight policy rejection moved it there.
C5_FailedOnlyAtCeilingOrPolicy ==
    \A v \in DOMAIN jobs :
        jobs[v].status = "failed" =>
            \/ jobs[v].attempts >= config.retries_max
            \/ jobs[v].last_error \in PolicyErrors

\* A record was rejected by policy with attempts to spare.
C5_Witness ==
    \E v \in DOMAIN jobs :
        /\ jobs[v].status = "failed"
        /\ jobs[v].attempts < config.retries_max
        /\ jobs[v].last_error \in PolicyErrors

\* C6: attempts never decreases; a call that returns failed (caught stage
\* failure or policy rejection) leaves the persisted attempts one above their
\* value at entry, a call that returns succeeded or skipped leaves them equal.
C6_AttemptsCountFailures ==
    /\ [](pc = "returned" =>
            jobs[Cur].attempts
                = entryAttempts + (IF result.status = "failed" THEN 1 ELSE 0))
    /\ [][\A v \in DOMAIN jobs : jobs'[v].attempts >= jobs[v].attempts]_vars

\* A second failing call took attempts from 1 to 2.
C6_Witness ==
    /\ pc = "returned"
    /\ result.status = "failed"
    /\ entryAttempts = 1
    /\ jobs[Cur].attempts = 2

\* C7: the selector never returns an id that has a record file.
C7_NoCandidateWithRecord ==
    pc = "selected" => CandidateIds \cap DOMAIN jobs = {}

\* The listing held an id with a pending record and the selector returned
\* other candidates.
C7_Witness ==
    /\ pc = "selected"
    /\ \E v \in ListedIds \cap DOMAIN jobs : jobs[v].status = "pending"
    /\ Len(candidates) > 0

\* C8: with a retry ceiling of 3 and every listed item picked up by the first
\* run, when three runs have run to their end and the fourth has made its
\* selection, an item whose record stands at a failed render is failed with
\* attempts 3 and a last_error, and the fourth run has not selected it.
C8_RenderFailsThreeRuns ==
    (/\ pc = "selected"
     /\ runId = 4
     /\ config.retries_max = 3
     /\ config.max_videos_per_run >= Len(allEntries)) =>
        \A v \in ListedIds \cap DOMAIN jobs :
            (jobs[v].step = "render" /\ jobs[v].status # "succeeded") =>
                /\ jobs[v].status = "failed"
                /\ jobs[v].attempts = 3
                /\ jobs[v].last_error # NULL
                /\ v \notin CandidateIds

\* C9: a call that ends in a policy rejection leaves the record failed at the
\* preflight step, with attempts 1 when the call created the record; the
\* processing logic never runs again for a record rejected by policy.
C9_PolicyRejectionIsTerminal ==
    /\ (pc = "returned" /\ result.status = "failed" /\ result.reason \in PolicyReasons) =>
            /\ jobs[Cur].status = "failed"
            /\ jobs[Cur].step = "preflight"
            /\ created => jobs[Cur].attempts = 1
    /\ \A v \in DOMAIN jobs :
            (jobs[v].status = "failed" /\ jobs[v].last_error \in PolicyErrors)
                => ~Processing(v)

\* A new item was rejected while the ceiling left attempts to spare.
C9_Witness ==
    /\ pc = "returned"
    /\ result.status = "failed"
    /\ result.reason \in PolicyReasons
    /\ created
    /\ config.retries_max = 2

C11_ThumbnailFailureNonFatal ==
    thumbnailFailed =>
        /\ pc \in {"call", "mark", "returned"}
        /\ CallIndex(at) > CallIndex("normalizeThumbnail")
        /\ (pc = "call" /\ at = "extractAudio") =>
                /\ jobs[Cur].step = "asr"
                /\ jobs[Cur].status = "pending"
                /\ jobs[Cur].attempts = entryAttempts
                /\ job = jobs[Cur]

\* The thumbnail failed and the call stands at extractAudio.
C11_Witness ==
    /\ thumbnailFailed
    /\ pc = "call"
    /\ at = "extractAudio"

\* C12: within one run the processing logic (everything after the entry
\* logic of processSingleVideo) runs at most once per item id: no two calls
\* of the run for the same id both got past the entry logic.
C12_ProcessedOncePerRun ==
    \A i, j \in 1..Len(calls) :
        (i < j /\ calls[i].videoId = calls[j].videoId)
            => ~(calls[i].processed /\ calls[j].processed)

\* C13: in a run that is not killed, the calls of processSingleVideo made so
\* far are for the first candidates of the selector's output, one call per
\* element and in its order; every call but the one in flight has returned,
\* so at most one item is in flight; and the run ends only when every element
\* of the output has been called.
C13_OneCallPerCandidateInOrder ==
    /\ [](/\ Len(calls) = (IF InCall THEN idx ELSE IF pc = "loop" THEN idx - 1 ELSE 0)
          /\ Len(calls) <= Len(candidates)
          /\ \A i \in 1..Len(calls) :
                /\ calls[i].videoId = candidates[i].videoId
                /\ (calls[i].status = "") <=> (InCall /\ i = idx))
    /\ [][(pc # "idle" /\ pc' = "idle") => Len(calls) = Len(candidates)]_vars

\* The second of two different candidates is called after the first returned.
C13_Witness ==
    /\ pc = "entry"
    /\ idx = 2
    /\ candidates[1].videoId # candidates[2].videoId
    /\ calls[1].status # ""

\* C14: in a run that is not killed, when a call returns failed the loop moves
\* on to the next candidate, and from the head of the loop with candidates
\* remaining the next step is the call of processSingleVideo for the next one.
C14_FailureDoesNotAbortRun ==
    [][/\ (pc = "returned" /\ result.status = "failed") =>
            /\ pc' = "loop"
            /\ idx' = idx + 1
            /\ candidates' = candidates
       /\ (pc = "loop" /\ idx <= Len(candidates)) =>
            /\ pc' = "entry"
            /\ idx' = idx
            /\ Len(calls') = idx
            /\ calls'[idx].videoId = candidates[idx].videoId]_vars

\* A candidate is called after the call before it returned failed.
C14_Witness ==
    /\ pc = "entry"
    /\ idx >= 2
    /\ calls[idx - 1].status = "failed"
    /\ calls[idx].videoId = candidates[idx].videoId

C16_NewestFirstStable ==
    /\ [][\A ok \in SUBSET (1..Len(config.channels)) :
            SelectCandidates(ok) =>
                LET merged == SelectSeq(MergeFeeds(config.channels, ok, 1), HasNoJob) IN
                /\ \A i \in 1..(Len(candidates') - 1) :
                        candidates'[i].publishedAt >= candidates'[i + 1].publishedAt
                /\ \A t \in 1..MaxTime :
                        LET out == SelectSeq(candidates', LAMBDA c : c.publishedAt = t)
                            src == SelectSeq(merged, LAMBDA e : e.published_at = t)
                        IN  /\ Len(out) <= Len(src)
                            /\ out = [i \in 1..Len(out) |-> ToCandidate(src[i])]]_vars
    /\ []((/\ pc = "selected"
            /\ config.channels = <<"UCa", "UCb">>
            /\ config.max_videos_per_run = 2
            /\ DOMAIN jobs = {}
            /\ {<<e.video_id, e.published_at>> : e \in {allEntries[i] : i \in 1..Len(allEntries)}}
                    = {<<"v1", 1>>, <<"v2", 2>>, <<"v3", 3>>})
           => [i \in 1..Len(candidates) |-> candidates[i].videoId] = <<"v3", "v2">>)

\* Two entries of different channels with the same publication time were both
\* selected.
C16_Witness ==
    /\ pc = "selected"
    /\ Len(candidates) = 2
    /\ candidates[1].publishedAt = candidates[2].publishedAt
    /\ candidates[1].channelId # candidates[2].channelId

\* C17: whatever sources fail, the selector returns, and returns what it
\* would return for the configuration without the failing sources.
C17_FailedSourcesSkipped ==
    [][\A ok \in SUBSET (1..Len(config.channels)) :
            SelectCandidates(ok) =>
                LET kept == KeepPositions(config.channels, ok, 1) IN
                /\ pc' = "selected"
                /\ candidates' =
                      FilterEntries(SortDesc(MergeFeeds(kept, 1..Len(kept), 1)), 1, <<>>)]_vars

\* A source with a non-empty feed failed and candidates of another source
\* were returned.
C17_Witness ==
    /\ pc = "selected"
    /\ Len(candidates) > 0
    /\ \E i \in 1..Len(config.channels) :
            /\ feeds[config.channels[i]] # <<>>
            /\ \A k \in 1..Len(feeds[config.channels[i]]) :
                    feeds[config.channels[i]][k].video_id \notin ListedIds

\* C18: whenever a collaborator is being called, the persisted record has the
\* step of that collaborator's stage, and when the process dies during the
\* call the record left on disk still names that stage.
C18_StepSavedBeforeCall ==
    /\ [](pc = "call" => (jobExists(Cur) /\ jobs[Cur].step = StageOf(at)))
    /\ [][(pc = "call" /\ pc' = "idle") =>
              (Cur \in DOMAIN jobs' /\ jobs'[Cur].step = StageOf(at))]_vars

\* The last collaborator of the render step is being called.
C18_Witness ==
    /\ pc = "call"
    /\ at = "probeVideo"
    /\ jobs[Cur].step = "render"

\* C19: when the process dies while processSingleVideo is between its entry
\* logic and its return (during a stage or between two stages), the record of
\* the item still exists, loads, is pending and has the attempts it had when
\* the call began; no record disappears and no terminal record changes.
C19_CrashKeepsRecord ==
    [][(pc \in {"step", "call"} /\ pc' = "idle") =>
          /\ Cur \in DOMAIN jobs'
          /\ Loads(jobs'[Cur])
          /\ jobs'[Cur].status = "pending"
          /\ jobs'[Cur].attempts = entryAttempts
          /\ \A v \in DOMAIN jobs :
                /\ v \in DOMAIN jobs'
                /\ Terminal(jobs[v]) => jobs'[v] = jobs[v]]_vars

\* C20: a call that finds its record pending goes on with the loaded record
\* unchanged and starts at preflight, whatever the record's step; its first
\* checkpoint changes the step only; and if it fails, the persisted attempts
\* are the loaded attempts plus one.
C20_PendingRestartsAtPreflight ==
    /\ [][(pc = "entry" /\ jobExists(Cur) /\ jobs[Cur].status = "pending") =>
              /\ pc' = "step"
              /\ at' = "preflight"
              /\ job' = jobs[Cur]
              /\ jobs' = jobs]_vars
    /\ [][(pc = "step" /\ ~created) =>
              /\ pc' = "call"
              /\ at' = "preflight"
              /\ jobs'[Cur] = [jobs[Cur] EXCEPT !.step = "preflight"]]_vars
    /\ []((pc = "returned" /\ ~created /\ result.status = "failed") =>
              jobs[Cur].attempts = entryAttempts + 1)

\* A record left at the render step with one failed attempt has been loaded
\* and the call stands before preflight.
C20_Witness ==
    /\ pc = "step"
    /\ ~created
    /\ at = "preflight"
    /\ jobs[Cur].step = "render"
    /\ jobs[Cur].attempts = 1
    /\ jobs[Cur].last_error # NULL
    /\ job = jobs[Cur]

\* C21: a call of processSingleVideo that finds a job.json whose content does
\* not satisfy the record shape ends with loadJob throwing and the file left
\* as it was, and the processing logic never runs on such a record.
C21_InvalidRecordNeverLoaded ==
    /\ [][(pc = "entry" /\ jobExists(Cur) /\ ~RecordShape(jobs[Cur])) =>
              /\ pc' = "idle"
              /\ jobs' = jobs]_vars
    /\ [](\A v \in DOMAIN jobs : Processing(v) => RecordShape(jobs[v]))

C23_DeliveryLayout ==
    \A d \in DOMAIN deliveries :
        /\ \/ pc = "mark" /\ d = <<runId, Cur>>
           \/ /\ d[2] \in DOMAIN jobs
              /\ jobs[d[2]].status = "succeeded"
              /\ jobs[d[2]].artifacts = buildArtifacts(DeliveryResult(d[1], d[2]))
        /\ DOMAIN deliveries[d] = {FileNames[i] : i \in 1..Len(FileNames)}
        /\ \A name \in DOMAIN deliveries[d] : deliveries[d][name] > 0

\* C24: preflightPasses rejects a live result with reason "live stream";
\* otherwise a null duration with reason "missing duration"; otherwise a
\* duration above the ceiling with the reason "duration <d>s exceeds limit";
\* and a duration equal to the ceiling is never rejected for its duration.
C24_PreflightPolicy ==
    (args.fn = "preflightPasses" /\ ret.kind = "value") =>
        LET p == args.preflight
            r == ret.value
        IN  /\ p.isLive => r = [ok |-> FALSE, reason |-> "live stream"]
            /\ (~p.isLive /\ p.durationSeconds = {}) =>
                    r = [ok |-> FALSE, reason |-> "missing duration"]
            /\ \A d \in p.durationSeconds :
                    /\ (~p.isLive /\ d > args.maxDurationSeconds) =>
                            /\ ~r.ok
                            /\ r.reason = "duration " \o ToString(d) \o "s exceeds limit"
                    /\ (~p.isLive /\ d = args.maxDurationSeconds) =>
                            /\ r.ok \/ r.reason = "shorts excluded"
                            /\ r.ok <=> ~(args.excludeShorts /\ p.shorts)

\* A result whose duration equals the ceiling has passed.
C24_Witness ==
    /\ args.fn = "preflightPasses"
    /\ ret.kind = "value"
    /\ ~args.preflight.isLive
    /\ args.preflight.durationSeconds = {args.maxDurationSeconds}
    /\ ret.value.ok

\* C25: a call that has returned because the probe of the rendered output
\* found the video or the audio stream missing never went on to
\* runMetadataGeneration or deliverJob (its record is still at step render),
\* and it was handled like any stage failure: attempts one above their value
\* at entry, last_error the error's message, status failed exactly when the
\* new attempts reached retries_max.
C25_MissingStreamIsStageFailure ==
    \A hasVideo, hasAudio \in BOOLEAN :
        (pc = "returned" /\ result.reason = MissingStreams(hasVideo, hasAudio)) =>
            /\ ~(hasVideo /\ hasAudio)
            /\ result.status = "failed"
            /\ at = "probeVideo"
            /\ jobs[Cur].step = "render"
            /\ jobs[Cur].artifacts = NoArtifacts
            /\ jobs[Cur].attempts = entryAttempts + 1
            /\ jobs[Cur].last_error = MissingStreams(hasVideo, hasAudio)
            /\ jobs[Cur].status = IF jobs[Cur].attempts >= config.retries_max
                                  THEN "failed" ELSE "pending"

\* The audio stream was missing and the ceiling left attempts to spare.
C25_Witness ==
    /\ pc = "returned"
    /\ result.reason = MissingStreams(TRUE, FALSE)
    /\ jobs[Cur].status = "pending"
    /\ jobs[Cur].attempts = 1

C27_NoCandidatesIsNoOp ==
    /\ [][(pc = "selected" /\ Len(candidates) = 0) =>
              /\ pc' = "idle"
              /\ jobs' = jobs
              /\ deliveries' = deliveries
              /\ deliverOk' = deliverOk
              /\ calls' = <<>>
              /\ job' = NoJob
              /\ at' = ""]_vars
    /\ [](pc \notin {"idle", "selected"} => Len(candidates) > 0)

\* The fourth run is over: the listed items all had records, one of them
\* pending, so the run had selected nothing.
C27_Witness ==
    /\ pc = "idle"
    /\ runId = 4
    /\ \E v \in DOMAIN jobs : jobs[v].status = "pending"
    /\ \A ch \in Channels : \A i \in 1..Len(feeds[ch]) :
            feeds[ch][i].channel_id \in {config.channels[k] : k \in 1..Len(config.channels)}
                => jobExists(feeds[ch][i].video_id)

\* C28 as stated: a text of length at most maxCharsPerLine is returned
\* unchanged.
C28_ShortTextUnchanged ==
    (Wrapped /\ Len(args.text) <= args.maxCharsPerLine) => ret.value = args.text

\* C28 amended: a text that, without its leading and trailing white space,
\* has length at most maxCharsPerLine is returned without that white space
\* and otherwise unchanged; so a text that neither begins nor ends with white
\* space and fits is returned unchanged.
C28_ShortTextTrimmed ==
    Wrapped =>
        /\ (\A first, last \in 1..Len(args.text) :
            (/\ first <= last
             /\ last - first + 1 <= args.maxCharsPerLine
             /\ ~IsSpace(args.text[first])
             /\ ~IsSpace(args.text[last])
             /\ \A i \in 1..Len(args.text) : (i < first \/ i > last) => IsSpace(args.text[i]))
                => ret.value = SubSeq(args.text, first, last))
        /\ (\A i \in 1..Len(args.text) : IsSpace(args.text[i])) => ret.value = <<>>

\* A text of exactly maxCharsPerLine characters with two blanks in a row
\* came back unchanged.
C28_Witness ==
    /\ Wrapped
    /\ Len(args.text) = args.maxCharsPerLine
    /\ \E i \in 1..(Len(args.text) - 1) : IsSpace(args.text[i]) /\ IsSpace(args.text[i + 1])
    /\ ~IsSpace(args.text[1])
    /\ ~IsSpace(args.text[Len(args.text)])
    /\ ret.value = args.text

\* C29: when the text does not fit and wraps to more than maxLines lines,
\* the text returned has exactly maxLines lines and its last line ends with
\* "...".
C29_TruncatedEndsWithEllipsis ==
    (/\ Wrapped
     /\ Len(Trim(args.text)) > args.maxCharsPerLine
     /\ Len(WrapLines(Trim(args.text), args.maxCharsPerLine)) > args.maxLines) =>
        LET out == SplitLines(ret.value, 1, <<>>) IN
            /\ Len(out) = args.maxLines
            /\ EndsWith(out[Len(out)], <<".", ".", ".">>)

\* C30: the text returned has at most maxLines lines and none of its lines
\* is longer than maxCharsPerLine.
C30_DisplayConstraint ==
    Wrapped =>
        LET out == SplitLines(ret.value, 1, <<>>) IN
            /\ Len(out) <= args.maxLines
            /\ \A i \in 1..Len(out) : Len(out[i]) <= args.maxCharsPerLine

\* C31 as stated: for every list of segments, parsing the formatted list gives
\* as many segments in the same order, each start and end within one
\* millisecond of the original and each text equal to the original text.
C31_RoundTrip ==
    RoundTripped =>
        /\ Len(ret.value) = Len(args.segments)
        /\ \A i \in 1..Len(ret.value) :
                /\ WithinOneMs(ret.value[i].start, args.segments[i].start)
                /\ WithinOneMs(ret.value[i].end, args.segments[i].end)
                /\ ret.value[i].text = args.segments[i].text

\* C31 amended: for every list of segments whose texts, without their leading
\* and trailing white space, are not empty and hold no blank line, and whose
\* times are below 100 hours, parsing the formatted list gives as many
\* segments in the same order, each start and end within one millisecond of
\* the original, and each text equal to the original text without its leading
\* and trailing white space.
C31_RoundTripOfPrintable ==
    (RoundTripped /\ \A i \in 1..Len(args.segments) : Printable(args.segments[i])) =>
        /\ Len(ret.value) = Len(args.segments)
        /\ \A i \in 1..Len(ret.value) :
                /\ WithinOneMs(ret.value[i].start, args.segments[i].start)
                /\ WithinOneMs(ret.value[i].end, args.segments[i].end)
                /\ ret.value[i].text = Trim(args.segments[i].text)

\* The segment from 0 to 1.5 s with the text "hi" came back as it was, and so
\* did, up to the white space around it, a second segment with a text of two
\* lines that starts between two milliseconds.
C31_Witness ==
    /\ RoundTripped
    /\ \/ args.segments = << [start |-> 0, end |-> Ms(1500), text |-> <<"h", "i">>] >>
       \/ /\ Len(args.segments) = 2
          /\ Printable(args.segments[2])
          /\ args.segments[2].start % Ms(1) # 0
          /\ \E i \in 1..Len(args.segments[2].text) : args.segments[2].text[i] = "\n"
          /\ IsSpace(args.segments[2].text[1])
    /\ ret.value = [i \in 1..Len(args.segments) |->
                        [start |-> (args.segments[i].start \div Ms(1)) * Ms(1),
                         end |-> (args.segments[i].end \div Ms(1)) * Ms(1),
                         text |-> Trim(args.segments[i].text)]]

\* C32: translateSegments returns as many segments as it was given, in the
\* same order, each with the start and the end of the input segment at its
\* position; only the text may differ.
C32_TranslateKeepsTimes ==
    (args.fn = "translateSegments" /\ ret.kind = "value") =>
        /\ Len(ret.value) = Len(args.sourceSegments)
        /\ \A i \in 1..Len(ret.value) :
                /\ ret.value[i].start = args.sourceSegments[i].start
                /\ ret.value[i].end = args.sourceSegments[i].end
                /\ DOMAIN ret.value[i] = {"start", "end", "text"}

\* Two segments were translated; the text of the first came back as it was,
\* that of the second was cut and ends with the ellipsis.
C32_Witness ==
    /\ args.fn = "translateSegments"
    /\ ret.kind = "value"
    /\ Len(args.sourceSegments) = 2
    /\ Len(ret.value) = 2
    /\ ret.value[1].text = args.sourceSegments[1].text
    /\ ret.value[2].text # args.sourceSegments[2].text
    /\ EndsWith(ret.value[2].text, Ellipsis)

\* The position of a collaborator's stage in the list of stages.
StageIndex(call) == CHOOSE k \in 1..Len(Stages) : Stages[k] = StageOf(call)

\* The record's step is the stage of the collaborator being called, no
\* failure has been handled, and the collaborators called up to this one
\* belong to stages in the order of the list of stages, none to a later stage
\* than this one's.
AtItsStage ==
    /\ result = NoResult
    /\ jobs[Cur].step = StageOf(at)
    /\ job.step = StageOf(at)
    /\ \E k \in 1..Len(Stages) : Stages[k] = StageOf(at)
    /\ \A i \in 1..(CallIndex(at) - 1) :
            StageIndex(Calls[i]) <= StageIndex(Calls[i + 1])

\* C33: within one call of processSingleVideo the first step written to the
\* record is preflight and every later write moves the step to the stage that
\* follows in the list of stages, while no failure has been handled in the
\* call (a thumbnail failure is not one); and whenever a collaborator is being
\* called the record's step is its stage, every earlier stage having been
\* entered.
C33_StagesInOrder ==
    /\ [][(InCall /\ jobExists(Cur) /\ pc' # "idle" /\ jobs'[Cur].step # jobs[Cur].step) =>
              \/ /\ pc = "step"
                 /\ jobs'[Cur].step = Stages[1]
              \/ /\ pc = "call"
                 /\ result = NoResult
                 /\ result' = NoResult
                 /\ \E i \in 1..(Len(Stages) - 1) :
                        /\ jobs[Cur].step = Stages[i]
                        /\ jobs'[Cur].step = Stages[i + 1]]_vars
    /\ [][(pc = "step") => (pc' = "idle" \/ jobs'[Cur].step = Stages[1])]_vars
    /\ [][(pc' \in {"call", "mark"}) => AtItsStage']_vars

\* The thumbnail failed, every stage after it was entered in turn and the
\* call stands at deliverJob with the step deliver saved.
C33_Witness ==
    /\ pc = "call"
    /\ at = "deliverJob"
    /\ thumbnailFailed
    /\ jobs[Cur].step = "deliver"
    /\ entryAttempts = 1

\* C34: a call of processSingleVideo that finds its record succeeded or
\* failed returns skipped with the reason of that status, leaves the record,
\* every other record and the deliveries as they were, and calls no
\* collaborator: it does not get past the entry logic.
C34_SkipPathHasNoEffects ==
    /\ [][(pc = "entry" /\ jobExists(Cur) /\ Terminal(jobs[Cur])) =>
              /\ jobs' = jobs
              /\ deliveries' = deliveries
              /\ deliverOk' = deliverOk
              /\ \/ pc' = "idle"
                 \/ /\ pc' = "returned"
                    /\ at' = ""
                    /\ ~calls'[idx].processed
                    /\ result' = [status |-> "skipped",
                                  reason |-> IF jobs[Cur].status = "succeeded"
                                             THEN "already succeeded"
                                             ELSE "already failed (max retries)"]]_vars
    /\ []((pc = "returned" /\ result.status = "skipped") =>
              /\ at = ""
              /\ ~thumbnailFailed
              /\ ~calls[idx].processed
              /\ Terminal(jobs[Cur])
              /\ job = jobs[Cur])

\* A call for an item whose delivery had failed at the ceiling came back
\* skipped; the record still shows that failure.
C34_Witness ==
    /\ pc = "returned"
    /\ result = [status |-> "skipped", reason |-> "already failed (max retries)"]
    /\ jobs[Cur].step = "deliver"
    /\ jobs[Cur].last_error = FailedToCopy(FileNames[2])
    /\ jobs[Cur].attempts = entryAttempts
    /\ at = ""

\* C35: a call that created its record, in which normalizeThumbnail failed
\* and every other collaborator up to deliverJob succeeded, and which has
\* returned without a failure of deliverJob's own, has returned succeeded
\* with the attempts unchanged.
C35_ThumbnailFailureDoesNotResurface ==
    (/\ pc = "returned"
     /\ created
     /\ thumbnailFailed
     /\ at = "deliverJob"
     /\ ~DeliverFailedByItself) =>
        /\ result.status = "succeeded"
        /\ jobs[Cur].status = "succeeded"
        /\ jobs[Cur].attempts = entryAttempts

\* C36: the candidate list a run's selector returned holds no item id twice.
C36_NoDuplicateCandidates ==
    pc = "selected" =>
        \A i, j \in 1..Len(candidates) :
            candidates[i].videoId = candidates[j].videoId => i = j

\* What withRetries has done so far, against its options: the invocations are
\* numbered 0, 1, ... and none follows a successful one; there are at most
\* retries + 1 of them; a return gives the value of the last, successful,
\* invocation; a throw after an invocation gives the error of the last one,
\* which was invocation number retries; and the k-th sleep, which precedes
\* retry number k, lasted min(baseDelayMs * 2^(k-1), maxDelay).
RetryContract ==
    LET n == Len(ret.invoked)
        retries == args.options.retries
    IN  /\ n <= Max(retries + 1, 0)
        /\ \A i \in 1..n : ret.invoked[i].attempt = i - 1
        /\ \A i \in 1..(n - 1) : ~ret.invoked[i].ok
        /\ ret.kind = "returned" =>
              /\ n >= 1
              /\ ret.invoked[n].ok
              /\ ret.value = ret.invoked[n].value
        /\ (ret.kind = "threw" /\ n >= 1) =>
              /\ n = retries + 1
              /\ ~ret.invoked[n].ok
              /\ ret.value = ret.invoked[n].value
        /\ ret.kind = "running" => \A i \in 1..n : ~ret.invoked[i].ok
        /\ Len(ret.slept) = (IF ret.kind = "running" THEN n ELSE Max(n - 1, 0))
        /\ \A k \in 1..Len(ret.slept) :
              ret.slept[k] = Min(args.options.baseDelayMs * TwoToThe(k - 1),
                                 maxDelay(args.options))

\* C38: withRetries invokes the action at most retries + 1 times, numbered
\* 0, 1, ... in order, returns the value of the first successful invocation
\* without invoking again, throws the error of the last invocation when all
\* fail, and waits min(baseDelayMs * 2^(k-1), maxDelay) before retry k; the
\* listing fetch as the selector makes it invokes its request at most 3
\* times, and no step of it changes a record.
C38_WithRetriesContract ==
    [][/\ RetryContract'
       /\ (args.fn = "fetchChannelFeed" /\ args.options.retries = DefaultFeedRetries) =>
             Len(ret'.invoked) <= 3
       /\ jobs' = jobs]_vars

\* All retries + 1 invocations failed with the cap on the delay reached, and
\* the error thrown is the last one, not the first.
C38_Witness ==
    /\ args.fn = "withRetries"
    /\ args.options.retries = MaxFetchRetries
    /\ args.options.maxDelayMs = {2 * DefaultBaseDelayMs}
    /\ ret.kind = "threw"
    /\ Len(ret.invoked) = MaxFetchRetries + 1
    /\ ret.slept[Len(ret.slept)] = 2 * DefaultBaseDelayMs
    /\ ret.slept[1] = DefaultBaseDelayMs
    /\ ret.invoked[1].value # ret.value

ProcessedHere == {calls[i].videoId : i \in {k \in 1..Len(calls) : calls[k].processed}}

DeliveredHere ==
    {v \in Videos : /\ <<runId, v>> \in DOMAIN deliveries
                    /\ \A k \in 1..Len(FileNames) :
                          FileNames[k] \in DOMAIN deliveries[<<runId, v>>]}

\* C39: when two invocations of runOnce overlap on one jobs directory, no
\* item has its stages executed by both and no item is delivered by both.
C39_OverlappingRunsShareNoItem ==
    /\ ProcessedHere \cap other.processed = {}
    /\ DeliveredHere \cap other.delivered = {}

IsPrefix(a, b) == Len(a) <= Len(b) /\ SubSeq(b, 1, Len(a)) = a

\* The first n characters of s, all of s when it has fewer.
FirstChars(s, n) == SubSeq(s, 1, Min(Len(s), n))

\* A settled promise stays as it is; it becomes resolved only in a close
\* event and rejected only in an error event.
SettlesOnce ==
    [][/\ promise.state \in {"resolved", "rejected"} => promise' = promise
       /\ (promise.state = "pending" /\ promise'.state = "resolved") =>
             child'.state = "closed"
       /\ (promise.state = "pending" /\ promise'.state = "rejected") =>
             child'.state = "error"]_vars

\* The close and the error event leave no timer armed, and once the child
\* has closed or failed to spawn the timer does not fire and nothing is killed.
NoKillAfterEnd ==
    [][/\ (child.state \in {"running", "killed"} /\ child'.state \in {"closed", "error"}) =>
             timeoutId' # "armed"
       /\ child.state \in {"closed", "error"} =>
             /\ timeoutId' # "armed"
             /\ timeoutId' = "fired" => timeoutId = "fired"
             /\ child'.state # "killed"]_vars

\* C40 as stated: the promise of runCommand settles once, resolved on close
\* and rejected on a spawn error; no kill is sent once the child has closed or
\* errored; and the stdout and stderr of the result are each a prefix, of at
\* most maxOutputChars characters, of what the child wrote.
C40_SettlesOnceWithPrefixOfOutput ==
    /\ SettlesOnce
    /\ NoKillAfterEnd
    /\ [](promise.state = "resolved" =>
            /\ IsPrefix(promise.value.stdout, child.wroteStdout)
            /\ IsPrefix(promise.value.stderr, child.wroteStderr)
            /\ Len(promise.value.stdout) <= args.maxOutputChars
            /\ Len(promise.value.stderr) <= args.maxOutputChars)

\* C40, amended: the same, with the stdout and stderr of the result each the
\* first maxOutputChars characters of what the child wrote with the white
\* space at both ends removed.
C40_SettlesOnceWithTrimmedPrefix ==
    /\ SettlesOnce
    /\ NoKillAfterEnd
    /\ [](promise.state = "resolved" =>
            /\ promise.value.stdout =
                  Trim(FirstChars(child.wroteStdout, args.maxOutputChars))
            /\ promise.value.stderr =
                  Trim(FirstChars(child.wroteStderr, args.maxOutputChars)))

\* A spawn error rejected the promise and cleared the timer, and the close
\* event that followed changed nothing.
C40_Witness ==
    /\ promise.state = "rejected"
    /\ child.state = "closed"
    /\ timeoutId = "cleared"

====
